---- MODULE Spec2Model ----
(***************************************************************************)
(* A model of zerostash: the FUSE read/write path of the mounted           *)
(* filesystem (zerostash-fuse/src/mount.rs), the commit/read cycle of the  *)
(* stash (libzerostash/src/stash/mod.rs), and the commands that commit     *)
(* (mount, zfs commit, zfs destroy).                                       *)
(*                                                                         *)
(* The module holds several specifications over one set of variables; a    *)
(* specification leaves the variables of the other parts at their idle     *)
(* value.                                                                  *)
(*   SpecFuse      : read / release on the mounted filesystem               *)
(*   SpecFuseWrite : read / write / release on the mounted filesystem       *)
(*   SpecStash     : Stash::commit and Stash::read over the meta stream     *)
(*   SpecMount     : the threads of the mount command                       *)
(*   SpecCli       : runs of zfs commit and zfs destroy over one stash      *)
(*   SpecOps       : either of the two                                      *)
(***************************************************************************)
EXTENDS Integers, Sequences, FiniteSets, TLC

VARIABLES
    \* ---- the mounted filesystem (SpecFuse) ----
    files,          \* stash.index().files : path -> Entry [size, chunks]
    objects,        \* backend chunk objects: object id (index) -> plaintext body
    corrupt,        \* ids of objects whose ciphertext no longer authenticates
    underlying,     \* the file that write() opens at path: path -> bytes
    chunks_cache,   \* ZerostashFS.chunks_cache : path -> ChunkStackCache | NoCache
    stale,          \* history: path's cache entry was built before path's last re-index
    lastRead,       \* history: the read() call just made, what it gave its callback
    lastWrite,      \* history: the last write() call and its result
    nwrites,        \* number of write() calls so far (bounded)
    lastRelease,    \* history: the release() call just made, the cache before it
    run,            \* history: the sequential run of reads in progress on a path
    \* ---- the stash and its meta stream (SpecStash) ----
    backend,        \* Backend: object id -> stored meta-object
    stash,          \* the committing Stash: [files, chunks], its in-memory indices
    committed,      \* history: the indices the last commit() serialized
    ncommits,       \* number of commit() calls so far (bounded)
    nextId,         \* source of fresh (random) ObjectIds: never handed out twice
    lastOpen,       \* history: the last `Stash::new(backend, key).read()`
    submitted,      \* history: the ObjectIds handed to Backend::write, in order
    meta,           \* a meta::Writer written and read back: [pc, field, records, w, ...]
    \* ---- the mount command (SpecMount) ----
    pc,             \* thread -> where it is: main, auto (auto_commit), worker, session
    stash_mutex,    \* Arc<Mutex<Infinitree<Files>>>: "free" or the thread holding it
    index,          \* stash.index(): [chunks, files], the writes each holds
    commits,        \* the index snapshots taken by the commits that succeeded
    chan,           \* messages in the sync_channel(2) from tx/destroy_tx to finished
    unmounted,      \* the FUSE session has been told to end
    opLog,          \* thread -> the commit/sync calls of its current operation
    failures,       \* history: the commit/sync calls that returned Err
    mountResult,    \* what mount() returned to its caller: "none" until it returns
    nticks,         \* auto-commit ticks so far (bounded)
    nmwrites,       \* FUSE write calls so far (bounded)
    nsignals,       \* Ctrl-C signals so far (bounded)
    \* ---- the zfs commands (SpecCli) ----
    repo,           \* the committed generations of zfs_snapshots, oldest first
    cli,            \* the running command: [cmd, name, pc, base, cur, log, ...]
    nruns,          \* commands started so far (bounded)
    \* ---- the directory tree of the mount (SpecTree) ----
    tree,           \* Tree: [heap, poisoned], the maps by address
    lastMove,       \* history: the last move_node call and the tree before it
    lastTree,       \* history: the last other call on the tree, and the tree before it
    ntreeops,       \* calls on the tree so far (bounded)
    \* ---- Stash::list (SpecList) ----
    listing         \* a call of list: [pc, entries, glob, rest, matchers, yielded]

fuseVars == <<files, objects, corrupt, underlying, chunks_cache, stale,
              lastRead, lastWrite, nwrites, lastRelease, run>>

stashVars == <<backend, stash, committed, ncommits, nextId, lastOpen, submitted, meta>>

mountVars == <<pc, stash_mutex, index, commits, chan, unmounted, opLog, failures,
               mountResult, nticks, nmwrites, nsignals>>

cliVars == <<repo, cli, nruns>>

treeVars == <<tree, lastMove, lastTree, ntreeops>>

listVars == <<listing>>

vars == <<files, objects, corrupt, underlying, chunks_cache, stale,
          lastRead, lastWrite, nwrites, lastRelease, run,
          backend, stash, committed, ncommits, nextId, lastOpen, submitted, meta,
          pc, stash_mutex, index, commits, chan, unmounted, opLog, failures,
          mountResult, nticks, nmwrites, nsignals,
          repo, cli, nruns,
          tree, lastMove, lastTree, ntreeops,
          listing>>

\* the variables each part leaves alone
notFuse == <<stashVars, mountVars, cliVars, treeVars, listVars>>
notStash == <<fuseVars, mountVars, cliVars, treeVars, listVars>>
notMount == <<fuseVars, stashVars, cliVars, treeVars, listVars>>
notCli == <<fuseVars, stashVars, mountVars, treeVars, listVars>>
notTree == <<fuseVars, stashVars, mountVars, cliVars, listVars>>
notList == <<fuseVars, stashVars, mountVars, cliVars, treeVars>>

----------------------------------------------------------------------------
(* Bounds *)

MaxFileSize == 3      \* largest file, in bytes
MaxReadSize == 3      \* largest size argument of read()
MaxWrites == 1        \* write() calls per run
MaxWriteLen == 1      \* largest data argument of write()
MaxWrittenSize == 2   \* largest file of a run with writes, and largest write offset

Paths == {"f", "g"}

NoCache == [none |-> TRUE]
None == -1            \* Option::None of ChunkStack.start / end

Min(a, b) == IF a <= b THEN a ELSE b

----------------------------------------------------------------------------
(* Sequences *)

RECURSIVE Reverse(_)
Reverse(s) == IF s = <<>> THEN <<>> ELSE Reverse(Tail(s)) \o <<Head(s)>>

RECURSIVE SetToSortedSeq(_)
SetToSortedSeq(S) ==
    IF S = {} THEN <<>>
    ELSE LET m == CHOOSE x \in S : \A y \in S : x <= y
         IN <<m>> \o SetToSortedSeq(S \ {m})

Zeros(n) == [i \in 1..n |-> 0]

\* the bytes a file at path p is first ingested from: every position has a
\* value of its own, so a slice taken at a wrong place differs from the right one
BaseByte(p) == IF p = "f" THEN 10 ELSE 20
Bytes(p, n) == [i \in 1..n |-> BaseByte(p) + i]

\* B[from .. to) with 0-based from/to, as a Rust slice
Slice(B, from, to) == SubSeq(B, from + 1, to)

----------------------------------------------------------------------------
(* Ingestion: Entry of a file (zerostash_files::store::index_file_non_async) *)

\* The Entry of bytes B cut at the offsets `cuts`, its chunks stored in object
\* obj whose body is B; the chunk list is pushed in any order (rev).
IndexFile(B, cuts, obj, rev) ==
    LET n == Len(B)
        offs == IF n = 0 THEN <<>> ELSE SetToSortedSeq({0} \cup cuts)
        k == Len(offs)
        list == [i \in 1..k |->
                    <<offs[i],
                      [object |-> obj, offset |-> offs[i],
                       length |-> (IF i < k THEN offs[i + 1] ELSE n) - offs[i]]>>]
    IN [size |-> n, chunks |-> IF rev THEN Reverse(list) ELSE list]

CutSets(n) == SUBSET (1..(n - 1))

----------------------------------------------------------------------------
(* ChunksIter, ChunkStackCache, ChunkStack *)

\* metadata.chunks.clone() sorted by file offset (a stable insertion sort)
RECURSIVE InsertSorted(_, _)
InsertSorted(s, c) ==
    IF s = <<>> THEN <<c>>
    ELSE IF c[1] < Head(s)[1] THEN <<c>> \o s
    ELSE <<Head(s)>> \o InsertSorted(Tail(s), c)

RECURSIVE sort_chunks(_)
sort_chunks(chunks) ==
    IF chunks = <<>> THEN <<>>
    ELSE InsertSorted(sort_chunks(SubSeq(chunks, 1, Len(chunks) - 1)),
                      chunks[Len(chunks)])

\* ChunksIter::peek_next_offset
peek_next_offset(rest, file_size) ==
    IF rest = <<>> THEN file_size ELSE Head(rest)[1]

\* objectreader.read_chunk(&pointer, &mut temp_buf) with temp_buf = vec![0; n]:
\* fails when the object does not authenticate or the buffer is too small for
\* the chunk; a larger buffer keeps its trailing zeros.
read_chunk(pointer, n) ==
    IF pointer.object \in corrupt \/ n < pointer.length
    THEN [ok |-> FALSE, data |-> <<>>]
    ELSE [ok |-> TRUE,
          data |-> Slice(objects[pointer.object], pointer.offset,
                         pointer.offset + pointer.length)
                   \o Zeros(n - pointer.length)]

\* ChunkStackCache::new
ChunkStackCache_new(chunks) ==
    [chunks |-> chunks, buf |-> <<>>, last_read_offset |-> 0]

\* ChunkStackCache::read_next: st is "Ok", "Err" (iterator exhausted) or
\* "panic" (the unwrap of read_chunk, or the usize subtraction underflowing)
ChunkStackCache_read_next(c, file_size) ==
    IF c.chunks = <<>> THEN [st |-> "Err", c |-> c, failed |-> FALSE]
    ELSE LET chunk == Head(c.chunks)
             adv == [c EXCEPT !.chunks = Tail(c.chunks)]
             n == peek_next_offset(adv.chunks, file_size) - chunk[1]
         IN IF n < 0 THEN [st |-> "panic", c |-> adv, failed |-> FALSE]
            ELSE LET r == read_chunk(chunk[2], n)
                 IN IF r.ok
                    THEN [st |-> "Ok", c |-> [adv EXCEPT !.buf = @ \o r.data],
                          failed |-> FALSE]
                    ELSE [st |-> "panic", c |-> adv, failed |-> TRUE]

\* ChunkStackCache::split_buf: returns buf[..end], keeps buf[end..]
split_buf(c, end) ==
    [ret |-> SubSeq(c.buf, 1, end),
     c |-> [c EXCEPT !.buf = SubSeq(c.buf, end + 1, Len(c.buf))]]

\* mutant of set_current_read: last_read_offset is left as it was
set_current_read_kept(c, val) == c

\* ChunkStackCache::set_current_read
set_current_read(c, val) == [c EXCEPT !.last_read_offset = val]


\* the cache path's loop (mount.rs 223-231): read_next until buf holds `end` bytes
RECURSIVE cache_fill(_, _, _, _)
cache_fill(c, end, file_size, fetched) ==
    LET r == ChunkStackCache_read_next(c, file_size)
    IN IF r.st # "Ok"
       THEN [st |-> r.st, c |-> r.c, failed |-> r.failed,
             fetched |-> fetched + (IF r.failed THEN 1 ELSE 0)]
       ELSE IF Len(r.c.buf) >= end
       THEN [st |-> "Ok", c |-> r.c, failed |-> FALSE, fetched |-> fetched + 1]
       ELSE cache_fill(r.c, end, file_size, fetched + 1)

\* slice::binary_search_by over the chunk offsets: <<TRUE, i>> for Ok(i),
\* <<FALSE, i>> for Err(i), i 0-based
RECURSIVE binary_search(_, _, _, _)
binary_search(chunks, target, left, right) ==
    IF left >= right THEN <<FALSE, left>>
    ELSE LET mid == left + ((right - left) \div 2)
             key == chunks[mid + 1][1]
         IN IF key < target THEN binary_search(chunks, target, mid + 1, right)
            ELSE IF key > target THEN binary_search(chunks, target, left, mid)
            ELSE <<TRUE, mid>>

\* mutant of ChunkStack_index: Err(v) => v, the insertion point taken as it is
ChunkStack_index_noadjust(chunks, offset) ==
    binary_search(chunks, offset, 0, Len(chunks))[2]

\* ChunkStack::new: the iterator skips to the chunk found; index is None (-1)
\* when Err(0) - 1 underflows
ChunkStack_index(chunks, offset) ==
    LET r == binary_search(chunks, offset, 0, Len(chunks))
    IN IF r[1] THEN r[2] ELSE r[2] - 1

ChunkStack_new(chunks, skip) ==
    [chunks |-> SubSeq(chunks, skip + 1, Len(chunks)), buf |-> <<>>,
     start |-> None, end |-> None]

\* ChunkStack::read_next
ChunkStack_read_next(s, file_size, offset) ==
    IF s.chunks = <<>> THEN [st |-> "Err", s |-> s, failed |-> FALSE]
    ELSE LET chunk == Head(s.chunks)
             adv == [s EXCEPT !.chunks = Tail(s.chunks)]
             n == peek_next_offset(adv.chunks, file_size) - chunk[1]
             started == IF adv.start = None
                        THEN [adv EXCEPT !.start = offset - chunk[1]]
                        ELSE adv
         IN IF adv.start = None /\ offset - chunk[1] < 0
            THEN [st |-> "panic", s |-> adv, failed |-> FALSE]
            ELSE IF n < 0 THEN [st |-> "panic", s |-> started, failed |-> FALSE]
            ELSE LET r == read_chunk(chunk[2], n)
                 IN IF r.ok
                    THEN [st |-> "Ok", s |-> [started EXCEPT !.buf = @ \o r.data],
                          failed |-> FALSE]
                    ELSE [st |-> "panic", s |-> started, failed |-> TRUE]

\* mutant of ChunkStack_is_full: full only once more than the request is buffered
ChunkStack_is_full_strict(s, size, file_size, offset) ==
    IF s.start = None THEN [st |-> "Ok", full |-> FALSE, end |-> None]
    ELSE IF s.start > Len(s.buf) THEN [st |-> "panic", full |-> FALSE, end |-> None]
    ELSE IF Len(s.buf) - s.start > Min(size, file_size - offset)
    THEN [st |-> "Ok", full |-> TRUE, end |-> Min(Len(s.buf), s.start + size)]
    ELSE [st |-> "Ok", full |-> FALSE, end |-> None]

\* ChunkStack::is_full: <<full, end>>; "panic" when buf[from..] is out of range
ChunkStack_is_full(s, size, file_size, offset) ==
    IF s.start = None THEN [st |-> "Ok", full |-> FALSE, end |-> None]
    ELSE IF s.start > Len(s.buf) THEN [st |-> "panic", full |-> FALSE, end |-> None]
    ELSE IF Len(s.buf) - s.start >= Min(size, file_size - offset)
    THEN [st |-> "Ok", full |-> TRUE, end |-> Min(Len(s.buf), s.start + size)]
    ELSE [st |-> "Ok", full |-> FALSE, end |-> None]

\* the seek path's loop (mount.rs 241-254)
RECURSIVE seek_fill(_, _, _, _, _)
seek_fill(s, size, file_size, offset, fetched) ==
    LET r == ChunkStack_read_next(s, file_size, offset)
    IN IF r.st # "Ok"
       THEN [result |-> IF r.st = "Err" THEN "EINVAL" ELSE "panic", data |-> <<>>,
             failed |-> r.failed, fetched |-> fetched + (IF r.failed THEN 1 ELSE 0)]
       ELSE LET f == ChunkStack_is_full(r.s, size, file_size, offset)
            IN IF f.st = "panic"
               THEN [result |-> "panic", data |-> <<>>, failed |-> FALSE,
                     fetched |-> fetched + 1]
               ELSE IF f.full
               THEN [result |-> "Ok", data |-> Slice(r.s.buf, r.s.start, f.end),
                     failed |-> FALSE, fetched |-> fetched + 1]
               ELSE seek_fill(r.s, size, file_size, offset, fetched + 1)

----------------------------------------------------------------------------
(* ZerostashFS::read *)

\* mutant of InvalidRange: the end of the file refused as well
InvalidRange_inclusive(offset, file_size) == offset >= file_size

\* offset > file_size is refused before anything else is touched
InvalidRange(offset, file_size) == offset > file_size

\* mutant of cache_end: the request is not clipped to the end of the file
cache_end_unclipped(size, file_size, offset) == size

\* the bytes the cache path hands out: end = size.min(file_size - offset)
cache_end(size, file_size, offset) == Min(size, file_size - offset)

\* mutant of seek_leaves: the seek path moves the entry's last_read_offset
seek_leaves_moved(entry, offset) == [entry EXCEPT !.last_read_offset = offset]

\* the path's cache entry after the seek path (mount.rs 238-254), which works
\* on a ChunkStack of its own
seek_leaves(entry, offset) == entry

\* The outcomes of read(path, offset, size): what the callback gets (result,
\* data; "panic" when the handler unwinds and the callback is never called),
\* by which path, the chunks fetched, and the path's cache entry afterwards.
read(p, offset, size) ==
    LET metadata == files[p]
        file_size == metadata.size
    IN IF InvalidRange(offset, file_size)
       THEN {[result |-> "EINVAL", via |-> "none", data |-> <<>>, fetched |-> 0,
              failed |-> FALSE, cache |-> chunks_cache[p]]}
       ELSE
       LET entry == IF chunks_cache[p] = NoCache
                    THEN ChunkStackCache_new(sort_chunks(metadata.chunks))
                    ELSE chunks_cache[p]
       IN IF entry.last_read_offset = offset
          THEN LET end == cache_end(size, file_size, offset)
                   fill == IF Len(entry.buf) < end
                           THEN cache_fill(entry, end, file_size, 0)
                           ELSE [st |-> "Ok", c |-> entry, failed |-> FALSE,
                                 fetched |-> 0]
               IN IF fill.st # "Ok"
                  THEN {[result |-> IF fill.st = "Err" THEN "EINVAL" ELSE "panic",
                         via |-> "cache", data |-> <<>>, fetched |-> fill.fetched,
                         failed |-> fill.failed, cache |-> fill.c]}
                  ELSE LET sp == split_buf(fill.c, end)
                       IN {[result |-> "Ok", via |-> "cache", data |-> sp.ret,
                            fetched |-> fill.fetched, failed |-> FALSE,
                            cache |-> set_current_read(sp.c, offset + end)]}
          ELSE LET sorted == sort_chunks(metadata.chunks)
                   skip == ChunkStack_index(sorted, offset)
               IN IF skip < 0
                  \* usize underflow: a panic with overflow checks, else the
                  \* iterator skips everything and read_next reports Err
                  THEN {[result |-> r, via |-> "seek", data |-> <<>>, fetched |-> 0,
                         failed |-> FALSE, cache |-> seek_leaves(entry, offset)]
                           : r \in {"panic", "EINVAL"}}
                  ELSE LET o == seek_fill(ChunkStack_new(sorted, skip), size,
                                          file_size, offset, 0)
                       IN {[result |-> o.result, via |-> "seek", data |-> o.data,
                            fetched |-> o.fetched, failed |-> o.failed,
                            cache |-> seek_leaves(entry, offset)]}

NoRead == [path |-> "", offset |-> 0, size |-> 0, file_size |-> 0, via |-> "none",
           result |-> "none", data |-> <<>>, fetched |-> 0, failed |-> FALSE,
           before |-> NoCache, stale |-> FALSE, after_release |-> FALSE,
           after_seek |-> FALSE]

NoRelease == [path |-> "", before |-> <<>>]

NoRun == [path |-> "", fresh |-> FALSE, next |-> 0, cache_fetched |-> 0,
          by_seek |-> FALSE, ok |-> FALSE, done |-> FALSE]

\* the run of sequential reads after read(p, offset, ..) gave outcome o: the
\* read goes on with the run when it is at the offset the read before it ended
\* at, begins a run when it is at offset 0, and is no part of a run otherwise
run_after(p, offset, o) ==
    LET continues == run.path = p /\ ~run.done /\ offset = run.next
        r == IF continues THEN run
             ELSE [NoRun EXCEPT !.path = p, !.fresh = (chunks_cache[p] = NoCache),
                                !.ok = TRUE]
        next == offset + Len(o.data)
    IN IF ~continues /\ offset # 0 THEN NoRun
       ELSE [r EXCEPT !.next = next,
                      !.cache_fetched = @ + (IF o.via = "cache" THEN o.fetched ELSE 0),
                      !.by_seek = @ \/ (o.via = "seek" /\ o.fetched > 0),
                      !.ok = @ /\ o.result = "Ok",
                      !.done = (o.result = "Ok" /\ next = files[p].size)]

Read(p, offset, size) ==
    /\ \E o \in read(p, offset, size) :
         /\ chunks_cache' = [chunks_cache EXCEPT ![p] = o.cache]
         /\ lastRead' = [path |-> p, offset |-> offset, size |-> size,
                         file_size |-> files[p].size, via |-> o.via,
                         result |-> o.result, data |-> o.data,
                         fetched |-> o.fetched, failed |-> o.failed,
                         before |-> chunks_cache[p], stale |-> stale[p],
                         after_release |-> (lastRelease.path = p),
                         after_seek |-> (lastRead.path = p /\ lastRead.via = "seek")]
         /\ run' = run_after(p, offset, o)
    /\ lastRelease' = NoRelease
    /\ UNCHANGED <<files, objects, corrupt, underlying, stale, lastWrite, nwrites>>


----------------------------------------------------------------------------
(* ZerostashFS::write, release *)

\* seek(Start(offset)) + write(data) on the underlying file: a seek past the end
\* leaves a hole of zeros
WriteAt(B, offset, data) ==
    LET padded == IF offset > Len(B) THEN B \o Zeros(offset - Len(B)) ELSE B
    IN SubSeq(padded, 1, offset) \o data
       \o SubSeq(padded, offset + Len(data) + 1, Len(padded))

WriteData(n) == [i \in 1..n |-> 90 + i]

NoWrite == [path |-> "", result |-> "none"]

\* what write does to the path's chunk cache entry: nothing
write_cache(cache, p) == cache

\* write(path, offset, data): an I/O error of seek/write returns Err with the file
\* untouched; an Entry::from_metadata error returns EINVAL with the file written
\* but not re-indexed; otherwise the whole file is re-indexed under the stash lock.
Write(p, offset, data) ==
    /\ nwrites < MaxWrites
    /\ nwrites' = nwrites + 1
    /\ \/ /\ lastWrite' = [path |-> p, result |-> "Err"]
          /\ UNCHANGED <<files, objects, underlying, chunks_cache, stale>>
       \/ /\ underlying' = [underlying EXCEPT ![p] = WriteAt(@, offset, data)]
          /\ lastWrite' = [path |-> p, result |-> "EINVAL"]
          /\ UNCHANGED <<files, objects, chunks_cache, stale>>
       \/ LET B == WriteAt(underlying[p], offset, data)
              obj == Len(objects) + 1
          IN /\ underlying' = [underlying EXCEPT ![p] = B]
             /\ objects' = Append(objects, B)
             /\ \E cuts \in CutSets(Len(B)), rev \in BOOLEAN :
                  files' = [files EXCEPT ![p] = IndexFile(B, cuts, obj, rev)]
             /\ chunks_cache' = write_cache(chunks_cache, p)
             /\ stale' = [stale EXCEPT ![p] = (chunks_cache'[p] # NoCache)]
             /\ lastWrite' = [path |-> p, result |-> "Ok"]
    /\ lastRead' = NoRead
    /\ lastRelease' = NoRelease
    /\ run' = NoRun
    /\ UNCHANGED corrupt

\* mutant of release_cache: the whole cache is cleared
release_cache_all(cache, p) == [q \in DOMAIN cache |-> NoCache]

\* release(path): chunks_cache.remove(path)
release_cache(cache, p) == [cache EXCEPT ![p] = NoCache]

Release(p) ==
    /\ chunks_cache' = release_cache(chunks_cache, p)
    /\ lastRelease' = [path |-> p, before |-> chunks_cache]
    /\ run' = NoRun
    /\ stale' = [q \in Paths |-> IF chunks_cache'[q] = NoCache THEN FALSE ELSE stale[q]]
    /\ lastRead' = NoRead
    /\ UNCHANGED <<files, objects, corrupt, underlying, lastWrite, nwrites>>

\* the backend loses or damages an object: its chunks no longer authenticate
Corrupt(o) ==
    /\ corrupt = {}
    /\ corrupt' = {o}
    /\ lastRead' = NoRead
    /\ lastRelease' = NoRelease
    /\ run' = NoRun
    /\ UNCHANGED <<files, objects, underlying, chunks_cache, stale, lastWrite, nwrites>>

----------------------------------------------------------------------------------------------------------------------------------------
(* The stash and its meta stream (libzerostash) *)

MaxCommits == 2       \* commit() calls per run
MaxNames == 2         \* file names 1..MaxNames
MaxDigests == 2       \* chunk digests 1..MaxDigests
BodyCapacity == 2     \* records a meta-object body holds before its header

Keys == {1, 2}        \* master keys; the committing stash holds StashKey
StashKey == 1
NoObject == -1        \* Option::<ObjectId>::None

\* StashKey::root_object_id: derived from the key alone
root_object_id(key) == key - 1
FirstFreshId == 2     \* fresh ids never collide with a derived root id

NoIndices == [files |-> {}, chunks |-> {}]

\* ---- meta::Writer ----
\* w.stored: the objects submitted to the backend, in order, as <<id, object>>

Writer_new(root, key, fresh) ==
    [id |-> root, key |-> key, offsets |-> <<>>, body |-> <<>>, stored |-> <<>>,
     fresh |-> fresh]

\* finalize the current meta-object: header {offsets, next_object}, encrypt, submit;
\* `more` when the stream continues in a freshly minted object
Writer_seal(w, more) ==
    LET obj == [key |-> w.key,
                next_object |-> IF more THEN w.fresh ELSE NoObject,
                offsets |-> w.offsets,
                body |-> w.body,
                malformed |-> {}]
    IN [w EXCEPT !.stored = Append(@, <<w.id, obj>>),
                 !.id = IF more THEN w.fresh ELSE NoObject,
                 !.fresh = IF more THEN @ + 1 ELSE @,
                 !.offsets = <<>>,
                 !.body = <<>>]

RECURSIVE Writer_write_records(_, _, _)
Writer_write_records(w, field, recs) ==
    IF recs = <<>> THEN w
    ELSE LET w1 == IF Len(w.body) >= BodyCapacity
                   THEN [Writer_seal(w, TRUE) EXCEPT !.offsets = <<field>>]
                   ELSE w
         IN Writer_write_records([w1 EXCEPT !.body = Append(@, <<field, Head(recs)>>)],
                                 field, Tail(recs))

\* Writer::write_field: the field starts at the current offset of the current object
Writer_write_field(w, field, store) ==
    Writer_write_records([w EXCEPT !.offsets = Append(@, field)], field,
                         SetToSortedSeq(store))

\* Writer::seal_and_store after the last field
Writer_seal_and_store(w) == Writer_seal(w, FALSE)

\* ---- Stash::commit ----

\* mutant of commit_fields: the chunk index is not written
commit_fields_files_only(st) == <<<<"files", st.files>>>>

\* the fields commit writes, in order
commit_fields(st) == <<<<"files", st.files>>, <<"chunks", st.chunks>>>>

RECURSIVE write_fields(_, _)
write_fields(w, fields) ==
    IF fields = <<>> THEN w
    ELSE write_fields(Writer_write_field(w, Head(fields)[1], Head(fields)[2]),
                      Tail(fields))

\* Stash::commit: the writer after seal_and_store
commit(st, key, fresh) ==
    Writer_seal_and_store(
        write_fields(Writer_new(root_object_id(key), key, fresh), commit_fields(st)))

\* the ids of the objects a writer submitted, in order
stored_ids(stored) == [i \in 1..Len(stored) |-> stored[i][1]]

\* Backend::write of each stored object, in order
RECURSIVE store_all(_, _)
store_all(b, stored) ==
    IF stored = <<>> THEN b
    ELSE store_all((Head(stored)[1] :> Head(stored)[2]) @@ b, Tail(stored))

\* ---- meta::Reader ----

\* Reader::open: the object exists and authenticates under the reader's key
can_open(b, id, key) == id \in DOMAIN b /\ b[id].key = key

\* mutant of read_into: the last record of the field is left out
read_into_short(obj, field) ==
    LET recs == {obj.body[i][2] : i \in {j \in 1..Len(obj.body) : obj.body[j][1] = field}}
    IN recs \ {r \in recs : \A q \in recs : q <= r}

\* Reader::read_into: the records of `field` in the open object
read_into(obj, field) ==
    {obj.body[i][2] : i \in {j \in 1..Len(obj.body) : obj.body[j][1] = field}}

\* read_into returns Err when the range of `field` does not deserialize
read_into_ok(obj, field) == field \notin obj.malformed

\* ---- MetaObjectHeader ----

\* mutant of header_next_object: the chain is taken to end at every object
header_next_object_none(obj) == NoObject

\* MetaObjectHeader::next_object
header_next_object(obj) == obj.next_object

\* MetaObjectHeader::fields: the fields of the offsets list, in its order
header_fields(obj) == obj.offsets

\* ---- Stash::read ----

\* the fields of one header, merged into the stores; `?` returns at the
\* first read_into that fails
RECURSIVE read_header_fields(_, _, _)
read_header_fields(fields, obj, st) ==
    IF fields = <<>> THEN [ok |-> TRUE, st |-> st]
    ELSE LET f == Head(fields)
         IN IF ~read_into_ok(obj, f) THEN [ok |-> FALSE, st |-> st]
            ELSE read_header_fields(
                   Tail(fields), obj,
                   IF f = "chunks"
                   THEN [st EXCEPT !.chunks = @ \cup read_into(obj, f)]
                   ELSE IF f = "files"
                   THEN [st EXCEPT !.files = @ \cup read_into(obj, f)]
                   ELSE st)

\* the object read() opens first
read_start(key) == root_object_id(key)

\* the while-let loop of read: status "Ok", "Err" (an open or a read_into
\* failed), or "loops" when next_object leads back to an object already opened,
\* which the loop follows for ever
RECURSIVE read_loop(_, _, _, _, _)
read_loop(b, next_object, key, st, opened) ==
    IF next_object = NoObject
    THEN [status |-> "Ok", files |-> st.files, chunks |-> st.chunks, opened |-> opened]
    ELSE IF \E i \in 1..Len(opened) : opened[i] = next_object
    THEN [status |-> "loops", files |-> st.files, chunks |-> st.chunks,
          opened |-> opened]
    ELSE IF ~can_open(b, next_object, key)
    THEN [status |-> "Err", files |-> st.files, chunks |-> st.chunks,
          opened |-> opened]
    ELSE LET obj == b[next_object]
             r == read_header_fields(header_fields(obj), obj, st)
         IN IF ~r.ok
            THEN [status |-> "Err", files |-> r.st.files, chunks |-> r.st.chunks,
                  opened |-> Append(opened, next_object)]
            ELSE read_loop(b, header_next_object(obj), key, r.st,
                           Append(opened, next_object))

\* Stash::new(backend, key).read()
stash_read(b, key) == read_loop(b, read_start(key), key, NoIndices, <<>>)

NoOpen == [status |-> "none", key |-> 0, files |-> {}, chunks |-> {}, opened |-> <<>>]

\* ---- a field written by a Writer and read back by a Reader ----

MetaOff == [pc |-> "off", oid |-> NoObject, key |-> 0, field |-> "", records |-> {},
            w |-> <<>>, objects |-> {}, status |-> "none", restored |-> {}]

\* Writer::objects().get(field): the ids of the stored objects that hold field
Writer_objects(w, field) ==
    {w.stored[i][1] : i \in {j \in 1..Len(w.stored) :
        \E k \in 1..Len(w.stored[j][2].offsets) : w.stored[j][2].offsets[k] = field}}

\* Writer::new(oid, storage, crypto); mw.write_field(field, &index)
MetaWriteField ==
    /\ meta.pc = "new"
    /\ meta' = [meta EXCEPT
                  !.w = Writer_write_field(Writer_new(meta.oid, meta.key, nextId),
                                           meta.field, meta.records),
                  !.pc = "written"]
    /\ UNCHANGED <<backend, stash, committed, ncommits, nextId, lastOpen, submitted>>

\* mw.seal_and_store(); mw.objects().get(field)
MetaSealAndStore ==
    /\ meta.pc = "written"
    /\ LET w == Writer_seal_and_store(meta.w)
       IN /\ meta' = [meta EXCEPT !.w = w, !.objects = Writer_objects(w, meta.field),
                                  !.pc = "sealed"]
          /\ backend' = store_all(backend, w.stored)
          /\ submitted' = submitted \o stored_ids(w.stored)
          /\ nextId' = w.fresh
    /\ UNCHANGED <<stash, committed, ncommits, lastOpen>>

\* Reader::new(storage, crypto); mr.open(id) for each id of objects, in the
\* order the set yields them; mr.read_into(field, &mut restore) on the object
\* left open
MetaReadBack ==
    /\ meta.pc = "sealed"
    /\ \E last \in meta.objects :
         LET opens == \A id \in meta.objects : can_open(backend, id, meta.key)
             reads == opens /\ read_into_ok(backend[last], meta.field)
         IN meta' = [meta EXCEPT
                       !.status = IF reads THEN "Ok" ELSE "Err",
                       !.restored = IF reads THEN read_into(backend[last], meta.field)
                                    ELSE {},
                       !.pc = "read"]
    /\ UNCHANGED <<backend, stash, committed, ncommits, nextId, lastOpen, submitted>>

\* any index of up to BodyCapacity + 1 records, under any key, root id and name
MetaInitial ==
    /\ backend = <<>>
    /\ stash = NoIndices
    /\ committed = NoIndices
    /\ ncommits = 0
    /\ nextId = FirstFreshId
    /\ lastOpen = NoOpen
    /\ submitted = <<>>
    /\ \E oid \in 0..(FirstFreshId - 1), key \in Keys, field \in {"files", "chunks"},
          records \in SUBSET (1..(BodyCapacity + 1)) :
         meta = [MetaOff EXCEPT !.pc = "new", !.oid = oid, !.key = key,
                                !.field = field, !.records = records]

DoMetaWriteField == MetaWriteField /\ UNCHANGED notStash
DoMetaSealAndStore == MetaSealAndStore /\ UNCHANGED notStash
DoMetaReadBack == MetaReadBack /\ UNCHANGED notStash

\* ---- actions ----

\* add_recursive: files and their chunks enter the in-memory indices
AddRecursive(n, d) ==
    /\ n \notin stash.files \/ d \notin stash.chunks
    /\ stash' = [files |-> stash.files \cup {n}, chunks |-> stash.chunks \cup {d}]
    /\ UNCHANGED <<backend, committed, ncommits, nextId, lastOpen, submitted, meta>>

Commit ==
    /\ ncommits < MaxCommits
    /\ LET w == commit(stash, StashKey, nextId)
       IN /\ backend' = store_all(backend, w.stored)
          /\ nextId' = w.fresh
          /\ submitted' = submitted \o stored_ids(w.stored)
    /\ committed' = stash
    /\ ncommits' = ncommits + 1
    /\ lastOpen' = NoOpen
    /\ UNCHANGED <<stash, meta>>

OpenRead(key) ==
    /\ lastOpen' = [key |-> key] @@ stash_read(backend, key)
    /\ UNCHANGED <<backend, stash, committed, ncommits, nextId, submitted, meta>>

StashInitial ==
    /\ backend = <<>>
    /\ stash = NoIndices
    /\ committed = NoIndices
    /\ ncommits = 0
    /\ nextId = FirstFreshId
    /\ lastOpen = NoOpen
    /\ submitted = <<>>
    /\ meta = MetaOff

StashIdle == StashInitial

\* ---- any chain of meta-objects ----

MaxChainIds == 3      \* the backend holds objects under the ids 0..MaxChainIds-1

ChainIds == 0..(MaxChainIds - 1)

\* the meta-objects a backend may hold under id: written under either key, any
\* next_object; a header that lists both fields, or only `files` though the
\* body goes on, or a `chunks` range that does not deserialize
ChainObjects(id) ==
    LET body == << <<"files", id + 1>>, <<"chunks", id + 1>> >>
        both == <<"files", "chunks">>
    IN UNION {
         {[key |-> StashKey, next_object |-> n, offsets |-> both, body |-> body,
           malformed |-> {}],
          [key |-> StashKey, next_object |-> n, offsets |-> <<"files">>, body |-> body,
           malformed |-> {}],
          [key |-> StashKey, next_object |-> n, offsets |-> both, body |-> body,
           malformed |-> {"chunks"}],
          [key |-> CHOOSE k \in Keys : k # StashKey, next_object |-> n,
           offsets |-> both, body |-> body, malformed |-> {}]}
         : n \in ChainIds \cup {NoObject}}

\* a backend holding any objects, under any of the ids
ChainInitial ==
    /\ \E ids \in SUBSET ChainIds :
         backend \in [ids -> UNION {ChainObjects(id) : id \in ids}]
         /\ \A id \in ids : backend[id] \in ChainObjects(id)
    /\ stash = NoIndices
    /\ committed = NoIndices
    /\ ncommits = 0
    /\ nextId = FirstFreshId
    /\ lastOpen = NoOpen
    /\ submitted = <<>>
    /\ meta = MetaOff

FuseIdle ==
    /\ files = <<>> /\ objects = <<>> /\ corrupt = {} /\ underlying = <<>>
    /\ chunks_cache = <<>> /\ stale = <<>>
    /\ lastRead = NoRead /\ lastWrite = NoWrite /\ nwrites = 0
    /\ lastRelease = NoRelease /\ run = NoRun

DoAdd ==
    /\ \E n \in 1..MaxNames, d \in 1..MaxDigests : AddRecursive(n, d)
    /\ UNCHANGED notStash
DoCommit == Commit /\ UNCHANGED notStash
DoOpenRead ==
    /\ \E key \in Keys : OpenRead(key)
    /\ UNCHANGED notStash


----------------------------------------------------------------------------
(* SpecFuse, SpecFuseWrite: the mounted filesystem over a stash holding the  *)
(* files of Paths. File "f" is ingested from any bytes up to a size bound    *)
(* and cut into chunks in any way; file "g" is a fixed two-chunk file in an  *)
(* object of its own.                                                        *)

GSize == 2

FuseInitUpTo(maxf) ==
    /\ \E nf \in 0..maxf :
         /\ underlying = [p \in Paths |-> Bytes(p, IF p = "f" THEN nf ELSE GSize)]
         /\ objects = <<Bytes("f", nf), Bytes("g", GSize)>>
         /\ \E cf \in CutSets(nf), rf \in BOOLEAN :
              files = [p \in Paths |->
                         IF p = "f" THEN IndexFile(Bytes("f", nf), cf, 1, rf)
                         ELSE IndexFile(Bytes("g", GSize), {1}, 2, TRUE)]
    /\ corrupt = {}
    /\ chunks_cache = [p \in Paths |-> NoCache]
    /\ stale = [p \in Paths |-> FALSE]
    /\ lastRead = NoRead
    /\ lastWrite = NoWrite
    /\ nwrites = 0
    /\ lastRelease = NoRelease
    /\ run = NoRun

MaxOffset == MaxFileSize + 1

DoRead ==
    /\ \E p \in Paths, offset \in 0..MaxOffset, size \in 0..MaxReadSize :
         Read(p, offset, size)
    /\ UNCHANGED notFuse
DoRelease ==
    /\ \E p \in Paths : Release(p)
    /\ UNCHANGED notFuse
DoCorrupt ==
    /\ \E o \in 1..Len(objects) : Corrupt(o)
    /\ UNCHANGED notFuse
DoWrite ==
    /\ \E p \in Paths, offset \in 0..MaxWrittenSize, n \in 1..MaxWriteLen :
         Write(p, offset, WriteData(n))
    /\ UNCHANGED notFuse
\* the reads of a run with writes: up to the end of the largest written file
DoReadWritten ==
    /\ \E p \in Paths, offset \in 0..(MaxWrittenSize + MaxWriteLen),
          size \in 1..(MaxWriteLen + 1) :
         Read(p, offset, size)
    /\ UNCHANGED notFuse



----------------------------------------------------------------------------
(* The mount command: mount(), auto_commit, the FUSE write callback, destroy *)

MaxTicks == 2          \* auto-commit ticks per run
MaxMountWrites == 2    \* FUSE write calls per run
MaxSignals == 3        \* Ctrl-C signals per run
ChannelCapacity == 2   \* mpsc::sync_channel(2)

Committers == {"auto", "session"}

\* mutant of can_lock: lock() returns though another thread holds the mutex
can_lock_always(m) == TRUE

\* Mutex::lock returns once no thread holds the mutex
can_lock(m) == m = "free"

\* the process is alive until mount() returns
Alive == pc["main"] # "returned"

LogCall(t, op, ok) ==
    /\ opLog' = [opLog EXCEPT ![t] = Append(@, <<op, ok>>)]
    /\ failures' = IF ok THEN failures ELSE failures \cup {op}

\* ---- auto_commit ----

\* interval.tick().await returns: the next iteration begins
Tick ==
    /\ Alive /\ pc["auto"] = "tick" /\ nticks < MaxTicks
    /\ pc' = [pc EXCEPT !["auto"] = "lock"]
    /\ opLog' = [opLog EXCEPT !["auto"] = <<>>]
    /\ nticks' = nticks + 1
    /\ UNCHANGED <<stash_mutex, index, commits, chan, unmounted, failures,
                   mountResult, nmwrites, nsignals>>

\* where each thread goes once it holds the stash mutex
after_lock(t) == IF t = "worker" THEN "chunks" ELSE "commit"

\* the calls auto_commit and destroy make under the lock, in order
committer_calls_swapped == <<"sync", "commit">>
committer_calls == <<"commit", "sync">>

\* self.stash.lock().unwrap() in auto_commit, write and destroy
Lock(t) ==
    /\ Alive /\ pc[t] = "lock" /\ can_lock(stash_mutex)
    /\ stash_mutex' = t
    /\ pc' = [pc EXCEPT ![t] = after_lock(t)]
    /\ UNCHANGED <<index, commits, chan, unmounted, opLog, failures, mountResult,
                   nticks, nmwrites, nsignals>>

\* the first call under the lock and the second: `let _ = ...`, the result dropped
CommitterCall(t, k) ==
    /\ Alive /\ t \in Committers
    /\ pc[t] = (IF k = 1 THEN "commit" ELSE "sync")
    /\ \E ok \in BOOLEAN :
         /\ LogCall(t, committer_calls[k], ok)
         /\ commits' = IF committer_calls[k] = "commit" /\ ok
                       THEN commits \cup {index} ELSE commits
    /\ pc' = [pc EXCEPT ![t] = IF k = 1 THEN "sync"
                               ELSE IF t = "auto" THEN "unlock" ELSE "send"]
    /\ UNCHANGED <<stash_mutex, index, chan, unmounted, mountResult, nticks,
                   nmwrites, nsignals>>

\* the guard is dropped: at the end of the loop body, of write's block, of destroy
Unlock(t) ==
    /\ Alive /\ pc[t] = "unlock"
    /\ stash_mutex' = IF stash_mutex = t THEN "free" ELSE stash_mutex
    /\ pc' = [pc EXCEPT ![t] = IF t = "auto" THEN "tick"
                               ELSE IF t = "worker" THEN "idle" ELSE "exited"]
    /\ UNCHANGED <<index, commits, chan, unmounted, opLog, failures, mountResult,
                   nticks, nmwrites, nsignals>>

\* ---- ZerostashFS::write on the worker thread ----

WriteStart ==
    /\ Alive /\ pc["worker"] = "idle" /\ nmwrites < MaxMountWrites
    /\ pc["session"] = "serving"
    /\ pc' = [pc EXCEPT !["worker"] = "file"]
    /\ nmwrites' = nmwrites + 1
    /\ UNCHANGED <<stash_mutex, index, commits, chan, unmounted, opLog, failures,
                   mountResult, nticks, nsignals>>

\* open, seek, write, seek, metadata, Entry::from_metadata: an error returns early
WriteFile ==
    /\ Alive /\ pc["worker"] = "file"
    /\ \E ok \in BOOLEAN : pc' = [pc EXCEPT !["worker"] = IF ok THEN "lock" ELSE "idle"]
    /\ UNCHANGED <<stash_mutex, index, commits, chan, unmounted, opLog, failures,
                   mountResult, nticks, nmwrites, nsignals>>

\* index_file_non_async: the chunks of the file enter the chunk index, ...
WriteChunks ==
    /\ Alive /\ pc["worker"] = "chunks"
    /\ index' = [index EXCEPT !.chunks = @ \cup {nmwrites}]
    /\ pc' = [pc EXCEPT !["worker"] = "entry"]
    /\ UNCHANGED <<stash_mutex, commits, chan, unmounted, opLog, failures,
                   mountResult, nticks, nmwrites, nsignals>>

\* ... then its entry enters the file index
WriteEntry ==
    /\ Alive /\ pc["worker"] = "entry"
    /\ index' = [index EXCEPT !.files = @ \cup {nmwrites}]
    /\ pc' = [pc EXCEPT !["worker"] = "unlock"]
    /\ UNCHANGED <<stash_mutex, commits, chan, unmounted, opLog, failures,
                   mountResult, nticks, nmwrites, nsignals>>

\* ---- shutdown: Ctrl-C, unmount, destroy, mount() ----

\* the Ctrl-C handler: tx.send(()), which blocks while the channel is full
CtrlC ==
    /\ Alive /\ nsignals < MaxSignals /\ chan < ChannelCapacity
    /\ chan' = chan + 1
    /\ nsignals' = nsignals + 1
    /\ UNCHANGED <<pc, stash_mutex, index, commits, unmounted, opLog, failures,
                   mountResult, nticks, nmwrites>>

\* the filesystem is unmounted from outside (umount)
Unmount ==
    /\ Alive /\ ~unmounted
    /\ unmounted' = TRUE
    /\ UNCHANGED <<pc, stash_mutex, index, commits, chan, opLog, failures,
                   mountResult, nticks, nmwrites, nsignals>>

\* the session ends and calls destroy
Destroy ==
    /\ Alive /\ unmounted /\ pc["session"] = "serving"
    /\ pc' = [pc EXCEPT !["session"] = "lock"]
    /\ opLog' = [opLog EXCEPT !["session"] = <<>>]
    /\ UNCHANGED <<stash_mutex, index, commits, chan, unmounted, failures,
                   mountResult, nticks, nmwrites, nsignals>>

\* destroy_tx.send(()), with the stash guard still held
DestroySend ==
    /\ Alive /\ pc["session"] = "send" /\ chan < ChannelCapacity
    /\ chan' = chan + 1
    /\ pc' = [pc EXCEPT !["session"] = "unlock"]
    /\ UNCHANGED <<stash_mutex, index, commits, unmounted, opLog, failures,
                   mountResult, nticks, nmwrites, nsignals>>

\* finished.recv()
Recv ==
    /\ pc["main"] = "recv" /\ chan > 0
    /\ chan' = chan - 1
    /\ pc' = [pc EXCEPT !["main"] = "join"]
    /\ UNCHANGED <<stash_mutex, index, commits, unmounted, opLog, failures,
                   mountResult, nticks, nmwrites, nsignals>>

\* handle.join(): unmount ...
JoinUnmount ==
    /\ pc["main"] = "join"
    /\ unmounted' = TRUE
    /\ pc' = [pc EXCEPT !["main"] = "joining"]
    /\ UNCHANGED <<stash_mutex, index, commits, chan, opLog, failures,
                   mountResult, nticks, nmwrites, nsignals>>

\* what mount() returns once the session is joined: Ok(())
mount_result(failed) == "Ok"

\* ... and wait for the session thread; then mount returns
Joined ==
    /\ pc["main"] = "joining" /\ pc["session"] = "exited"
    /\ pc' = [pc EXCEPT !["main"] = "returned"]
    /\ mountResult' = mount_result(failures)
    /\ UNCHANGED <<stash_mutex, index, commits, chan, unmounted, opLog, failures,
                   nticks, nmwrites, nsignals>>

MountInitial ==
    /\ pc = [main |-> "recv", auto |-> "tick", worker |-> "idle", session |-> "serving"]
    /\ stash_mutex = "free"
    /\ index = [chunks |-> {}, files |-> {}]
    /\ commits = {}
    /\ chan = 0
    /\ unmounted = FALSE
    /\ opLog = [auto |-> <<>>, session |-> <<>>]
    /\ failures = {}
    /\ mountResult = "none"
    /\ nticks = 0 /\ nmwrites = 0 /\ nsignals = 0

\* no mount command runs
MountIdle ==
    /\ pc = [main |-> "returned", auto |-> "off", worker |-> "off", session |-> "off"]
    /\ stash_mutex = "free"
    /\ index = [chunks |-> {}, files |-> {}]
    /\ commits = {}
    /\ chan = 0
    /\ unmounted = FALSE
    /\ opLog = [auto |-> <<>>, session |-> <<>>]
    /\ failures = {}
    /\ mountResult = "none"
    /\ nticks = 0 /\ nmwrites = 0 /\ nsignals = 0

DoTick == Tick /\ UNCHANGED notMount
DoLock == (\E t \in {"auto", "worker", "session"} : Lock(t)) /\ UNCHANGED notMount
DoCommitterCall ==
    /\ \E t \in Committers, k \in 1..2 : CommitterCall(t, k)
    /\ UNCHANGED notMount
DoUnlock == (\E t \in {"auto", "worker", "session"} : Unlock(t)) /\ UNCHANGED notMount
DoWriteStart == WriteStart /\ UNCHANGED notMount
DoWriteFile == WriteFile /\ UNCHANGED notMount
DoWriteChunks == WriteChunks /\ UNCHANGED notMount
DoWriteEntry == WriteEntry /\ UNCHANGED notMount
DoCtrlC == CtrlC /\ UNCHANGED notMount
DoUnmount == Unmount /\ UNCHANGED notMount
DoDestroy == Destroy /\ UNCHANGED notMount
DoDestroySend == DestroySend /\ UNCHANGED notMount
DoRecv == Recv /\ UNCHANGED notMount
DoJoinUnmount == JoinUnmount /\ UNCHANGED notMount
DoJoined == Joined /\ UNCHANGED notMount

MountNext ==
    \/ DoTick \/ DoLock \/ DoCommitterCall \/ DoUnlock
    \/ DoWriteStart \/ DoWriteFile \/ DoWriteChunks \/ DoWriteEntry
    \/ DoCtrlC \/ DoUnmount \/ DoDestroy \/ DoDestroySend
    \/ DoRecv \/ DoJoinUnmount \/ DoJoined

----------------------------------------------------------------------------
(* The zfs commands over one stash: zfs commit, zfs destroy *)

MaxRuns == 3           \* commands run one after the other

SnapshotNames == {"s1", "s2"}
Tombstone == 0         \* a removed key in a generation; stream values are >= 1

\* ---- VersionedMap: generations of name -> value | Tombstone ----

\* a generation merged over the older ones
apply_generation(m, g) ==
    LET dead == {k \in DOMAIN g : g[k] = Tombstone}
        live == {k \in DOMAIN g : g[k] # Tombstone}
    IN [k \in (DOMAIN m \cup live) \ dead |-> IF k \in live THEN g[k] ELSE m[k]]

\* open + load_all: every committed generation, oldest first
RECURSIVE load_all(_)
load_all(gens) ==
    IF gens = <<>> THEN <<>>
    ELSE apply_generation(load_all(SubSeq(gens, 1, Len(gens) - 1)), gens[Len(gens)])

\* get: the newest value, Tombstone when there is none
vm_get(base, cur, k) ==
    IF k \in DOMAIN cur THEN cur[k]
    ELSE IF k \in DOMAIN base THEN base[k] ELSE Tombstone

vm_insert(cur, k, v) == (k :> v) @@ cur
vm_remove(cur, k) == (k :> Tombstone) @@ cur

\* ---- the commands ----

CliOff == [cmd |-> "none", name |-> "", pc |-> "off", opened |-> "none",
           base |-> <<>>, cur |-> <<>>, log |-> <<>>, prior |-> <<>>,
           existing |-> FALSE, open_failed |-> FALSE, zfs_send |-> "none",
           stream_written |-> FALSE]

CliLog(op, ok) == Append(cli.log, <<op, ok>>)

\* a command is started once the one before it has ended
CliStart(cmd, name) ==
    /\ cli.pc \in {"idle", "done", "panicked"} /\ nruns < MaxRuns
    /\ cli' = [CliOff EXCEPT !.cmd = cmd, !.name = name, !.pc = "open",
                              !.prior = load_all(repo), !.existing = (repo # <<>>)]
    /\ nruns' = nruns + 1
    /\ UNCHANGED repo

\* what try_open hands back when Stash::open fails: a new empty stash
try_open(ok) == IF ok THEN "ok" ELSE "empty"

\* self.stash.open(): Stash::open fails when there is no stash yet, and may fail
\* on one that exists (the backend read, the authentication of the root)
CliOpen ==
    /\ cli.pc = "open"
    /\ \E ok \in BOOLEAN :
         /\ ok => repo # <<>>
         /\ cli' = [cli EXCEPT !.opened = try_open(ok), !.open_failed = ~ok,
                               !.pc = "load"]
    /\ UNCHANGED <<repo, nruns>>

\* stash.load(zfs_snapshots).unwrap() / stash.load_all().unwrap()
CliLoad ==
    /\ cli.pc = "load"
    /\ \E ok \in BOOLEAN :
         cli' = IF ~ok THEN [cli EXCEPT !.pc = "panicked"]
                ELSE [cli EXCEPT
                        !.base = IF cli.opened = "ok" THEN load_all(repo) ELSE <<>>,
                        !.pc = IF cli.cmd = "zfs_destroy" THEN "remove" ELSE "store"]
    /\ UNCHANGED <<repo, nruns>>

\* mutant of snapshot_exists: no name is taken to exist
snapshot_exists_never(base, cur, name) == FALSE

\* snapshots.get(&snapshot).is_some()
snapshot_exists(base, cur, name) == vm_get(base, cur, name) # Tombstone

\* store_stream_from_stdout: refuse an existing name, else capture the stream
\* into storage (from_stdout writes as it reads, also when it then fails) and
\* insert it
ZfsStore ==
    /\ cli.pc = "store"
    /\ IF snapshot_exists(cli.base, cli.cur, cli.name)
       THEN cli' = [cli EXCEPT !.pc = "panicked"]
       ELSE \E captured \in BOOLEAN :
              cli' = IF captured
                     THEN [cli EXCEPT !.cur = vm_insert(@, cli.name, nruns),
                                      !.stream_written = TRUE, !.pc = "wait"]
                     ELSE [cli EXCEPT !.stream_written = TRUE, !.pc = "panicked"]
    /\ UNCHANGED <<repo, nruns>>

\* child.wait(): a failed `zfs send` panics before commit
ZfsWait ==
    /\ cli.pc = "wait"
    /\ \E success \in BOOLEAN :
         cli' = [cli EXCEPT !.zfs_send = IF success THEN "success" ELSE "failed",
                            !.pc = IF success THEN "commit" ELSE "panicked"]
    /\ UNCHANGED <<repo, nruns>>

\* mutant of destroy_index_op: nothing is removed
destroy_index_op_none(cur, name) == cur

\* stash.index().zfs_snapshots.remove(name)
destroy_index_op(cur, name) == vm_remove(cur, name)

DestroyRemove ==
    /\ cli.pc = "remove"
    /\ cli' = [cli EXCEPT !.cur = destroy_index_op(@, cli.name), !.pc = "commit"]
    /\ UNCHANGED <<repo, nruns>>

\* `.expect(..)`: go on when the call returned Ok, panic when it returned Err
after_expect(ok, next) == IF ok THEN next ELSE "panicked"

\* stash.commit(..).expect(..): a commit that fails publishes nothing; one made
\* on the empty stash try_open fell back to starts the history anew
CliCommit ==
    /\ cli.pc = "commit"
    /\ \E ok \in BOOLEAN :
         /\ cli' = [cli EXCEPT !.log = CliLog("commit", ok),
                               !.pc = after_expect(ok, "sync")]
         /\ repo' = IF ~ok THEN repo
                    ELSE IF cli.opened = "ok" THEN Append(repo, cli.cur)
                    ELSE <<cli.cur>>
    /\ UNCHANGED nruns

\* stash.backend().sync().expect(..)
CliSync ==
    /\ cli.pc = "sync"
    /\ \E ok \in BOOLEAN :
         cli' = [cli EXCEPT !.log = CliLog("sync", ok), !.pc = after_expect(ok, "done")]
    /\ UNCHANGED <<repo, nruns>>

CliInitial == repo = <<>> /\ cli = [CliOff EXCEPT !.pc = "idle"] /\ nruns = 0

\* no command runs
CliIdle == repo = <<>> /\ cli = CliOff /\ nruns = 0

DoCliStart ==
    /\ \E cmd \in {"zfs_commit", "zfs_destroy"}, name \in SnapshotNames :
         CliStart(cmd, name)
    /\ UNCHANGED notCli
DoCliOpen == CliOpen /\ UNCHANGED notCli
DoCliLoad == CliLoad /\ UNCHANGED notCli
DoZfsStore == ZfsStore /\ UNCHANGED notCli
DoZfsWait == ZfsWait /\ UNCHANGED notCli
DoDestroyRemove == DestroyRemove /\ UNCHANGED notCli
DoCliCommit == CliCommit /\ UNCHANGED notCli
DoCliSync == CliSync /\ UNCHANGED notCli

CliNext ==
    \/ DoCliStart \/ DoCliOpen \/ DoCliLoad \/ DoZfsStore \/ DoZfsWait
    \/ DoDestroyRemove \/ DoCliCommit \/ DoCliSync


----------------------------------------------------------------------------
(* The in-memory directory tree of the mounted file system (tree.rs) *)

\* the names a path is made of, the depth of the paths tried, and the calls
\* made on a tree before a last move_node
TreeNames == {"a", "b"}
MaxPathLen == 2
MaxTreeOps == 2

\* a path split at '/' with the empty parts dropped; never the root itself
TreePaths == UNION {[1..n -> TreeNames] : n \in 1..MaxPathLen}

\* the keys of a map: the names, and the "" under which the top map keeps the root
TreeKeys == TreeNames \cup {""}

\* the name rename_file gives
NewNames == {"r"}

\* an Arc<Mutex<BTreeMap<String, Node>>> is an address into tree.heap; the map
\* of the Tree itself, self.0, is the first
Top == 1

\* Option<Node>: None, Node::File(entry), Node::Directory(arc)
NoNode == [kind |-> "none", ref |-> 0, name |-> ""]
Node_File(e) == [kind |-> "file", ref |-> e.id, name |-> e.name]
Node_Directory(a) == [kind |-> "dir", ref |-> a, name |-> ""]

\* BTreeMap::default()
EmptyMap == [k \in TreeKeys |-> NoNode]

\* Tree::default(); poisoned once a call has panicked with a map's guard held
EmptyTree == [heap |-> <<EmptyMap>>, poisoned |-> FALSE]

\* Arc::default(): a new map at a new address
Arc_default(t) ==
    [t |-> [t EXCEPT !.heap = Append(@, EmptyMap)], arc |-> Len(t.heap) + 1]

map_insert(t, arc, name, node) ==
    [t EXCEPT !.heap[arc] = [@ EXCEPT ![name] = node]]

\* mutant of map_remove: the entry stays
map_remove_kept(t, arc, name) == t

\* BTreeMap::remove under the lock
map_remove(t, arc, name) == map_insert(t, arc, name, NoNode)

get_or_insert_root(t) ==
    LET child == t.heap[Top][""] IN
    IF child = NoNode
    THEN LET a == Arc_default(t) IN
         [st |-> "Ok", t |-> map_insert(a.t, Top, "", Node_Directory(a.arc)),
          arc |-> a.arc]
    ELSE IF child.kind = "dir" THEN [st |-> "Ok", t |-> t, arc |-> child.ref]
    ELSE [st |-> "panic", t |-> t, arc |-> Top]

\* the loop of get_or_insert_last_two_nodes over all parts but the last
RECURSIVE get_or_insert_last_two_nodes(_, _, _)
get_or_insert_last_two_nodes(t, current, parts) ==
    IF Len(parts) <= 1 THEN [st |-> "Ok", t |-> t, arc |-> current]
    ELSE LET child == t.heap[current][Head(parts)] IN
         IF child = NoNode
         THEN LET a == Arc_default(t) IN
              get_or_insert_last_two_nodes(
                  map_insert(a.t, current, Head(parts), Node_Directory(a.arc)),
                  a.arc, Tail(parts))
         ELSE IF child.kind = "dir"
         THEN get_or_insert_last_two_nodes(t, child.ref, Tail(parts))
         ELSE [st |-> "panic", t |-> t, arc |-> current]

\* insert_directory(path, Some(node)) and insert_file(path, file)
insert_node(t, path, node) ==
    LET r == get_or_insert_root(t)
        w == get_or_insert_last_two_nodes(r.t, r.arc, path)
    IN  IF r.st = "panic" THEN [st |-> "panic", t |-> r.t]
        ELSE IF w.st = "panic" THEN [st |-> "panic", t |-> w.t]
        ELSE [st |-> "Ok", t |-> map_insert(w.t, w.arc, path[Len(path)], node)]

insert_directory(t, path, node) ==
    IF node = NoNode
    THEN LET a == Arc_default(t) IN insert_node(a.t, path, Node_Directory(a.arc))
    ELSE insert_node(t, path, node)

insert_file(t, path, file) == insert_node(t, path, Node_File(file))

\* the loop of get: a file met on the way is returned, whatever parts remain
RECURSIVE get_from(_, _, _)
get_from(t, current, parts) ==
    IF parts = <<>> THEN Node_Directory(current)
    ELSE LET child == t.heap[current][Head(parts)] IN
         IF child.kind = "dir" THEN get_from(t, child.ref, Tail(parts))
         ELSE child

get(t, path) ==
    LET child == t.heap[Top][""] IN
    IF child.kind = "dir" THEN get_from(t, child.ref, path) ELSE NoNode

\* the loops of remove and get_last_two_nodes over all parts but the last:
\* the directory that holds the last part, NoNode when a part is no directory
RECURSIVE get_last_two_nodes(_, _, _)
get_last_two_nodes(t, current, parts) ==
    IF Len(parts) <= 1 THEN Node_Directory(current)
    ELSE LET child == t.heap[current][Head(parts)] IN
         IF child.kind = "dir" THEN get_last_two_nodes(t, child.ref, Tail(parts))
         ELSE NoNode

remove(t, path) ==
    LET child == t.heap[Top][""] IN
    IF child.kind # "dir" THEN [t |-> t, node |-> NoNode]
    ELSE LET parent == get_last_two_nodes(t, child.ref, path)
             name == path[Len(path)]
         IN  IF parent = NoNode THEN [t |-> t, node |-> NoNode]
             ELSE [t |-> map_remove(t, parent.ref, name),
                   node |-> t.heap[parent.ref][name]]

\* rename_file: the unwraps of get_root and of get_mut, and "Cant rename!",
\* panic with the guard of a map held and poison its mutex
rename_file(t, path, name) ==
    LET child == t.heap[Top][""] IN
    IF child = NoNode THEN [st |-> "panic", t |-> [t EXCEPT !.poisoned = TRUE]]
    ELSE IF child.kind # "dir" THEN [st |-> "panic", t |-> t]
    ELSE LET parent == get_last_two_nodes(t, child.ref, path)
             filename == path[Len(path)]
         IN  IF parent = NoNode THEN [st |-> "panic", t |-> t]
             ELSE LET node == t.heap[parent.ref][filename] IN
                  IF node.kind # "file"
                  THEN [st |-> "panic", t |-> [t EXCEPT !.poisoned = TRUE]]
                  ELSE [st |-> "Ok",
                        t |-> map_insert(t, parent.ref, filename,
                                         [node EXCEPT !.name = name])]

\* mutant of moved_directory: a copy of the directory's map behind a new Arc
moved_directory_copied(t, dir) ==
    LET a == Arc_default(t) IN
    [t |-> [a.t EXCEPT !.heap[a.arc] = t.heap[dir.ref]], node |-> Node_Directory(a.arc)]

\* Node::Directory(dir) as move_node hands it to insert_directory
moved_directory(t, dir) == [t |-> t, node |-> dir]

\* mutant of move_remove: the node stays at old_path
move_remove_none(t, old_path) == t

\* self.remove(old_path) in move_node, the node it returns dropped
move_remove(t, old_path) == remove(t, old_path).t

move_node(t, old_path, new_path) ==
    LET node == get(t, old_path) IN
    IF node = NoNode THEN [st |-> "panic", t |-> t]
    ELSE LET removed == move_remove(t, old_path) IN
         IF node.kind = "file"
         THEN insert_file(removed, new_path, [id |-> node.ref, name |-> node.name])
         ELSE LET m == moved_directory(removed, node) IN
              insert_directory(m.t, new_path, m.node)

NoMove == [old |-> <<>>, new |-> <<>>, st |-> "none", node |-> NoNode,
           before |-> EmptyTree]

NoTreeOp == [op |-> "none", path |-> <<>>, st |-> "none", node |-> NoNode,
             before |-> EmptyTree]

\* a panic in a callback ends the callback, not the process: calls go on
\* until one has poisoned a mutex of the tree
TreeAlive == ~tree.poisoned

\* each file inserted is an Entry of its own
NewEntry(path) == [id |-> ntreeops + 1, name |-> path[Len(path)]]

InsertDirectory(path) ==
    /\ TreeAlive
    /\ ntreeops < MaxTreeOps
    /\ LET r == insert_directory(tree, path, NoNode) IN
       /\ tree' = r.t
       /\ lastTree' = [op |-> "insert_directory", path |-> path, st |-> r.st,
                       node |-> get(r.t, path), before |-> tree]
    /\ ntreeops' = ntreeops + 1
    /\ lastMove' = NoMove

InsertFile(path) ==
    /\ TreeAlive
    /\ ntreeops < MaxTreeOps
    /\ LET r == insert_file(tree, path, NewEntry(path)) IN
       /\ tree' = r.t
       /\ lastTree' = [op |-> "insert_file", path |-> path, st |-> r.st,
                       node |-> Node_File(NewEntry(path)), before |-> tree]
    /\ ntreeops' = ntreeops + 1
    /\ lastMove' = NoMove

Remove(path) ==
    /\ TreeAlive
    /\ ntreeops < MaxTreeOps
    /\ LET r == remove(tree, path) IN
       /\ tree' = r.t
       /\ lastTree' = [op |-> "remove", path |-> path, st |-> "Ok",
                       node |-> r.node, before |-> tree]
    /\ ntreeops' = ntreeops + 1
    /\ lastMove' = NoMove

RenameFile(path, name) ==
    /\ TreeAlive
    /\ ntreeops < MaxTreeOps
    /\ LET r == rename_file(tree, path, name) IN
       /\ tree' = r.t
       /\ lastTree' = [op |-> "rename_file", path |-> path, st |-> r.st,
                       node |-> NoNode, before |-> tree]
    /\ ntreeops' = ntreeops + 1
    /\ lastMove' = NoMove

\* a move_node among the calls, or as one more after them
MoveNode(old_path, new_path) ==
    /\ TreeAlive
    /\ ntreeops <= MaxTreeOps
    /\ LET r == move_node(tree, old_path, new_path) IN
       /\ tree' = r.t
       /\ lastMove' = [old |-> old_path, new |-> new_path, st |-> r.st,
                       node |-> get(tree, old_path), before |-> tree]
    /\ ntreeops' = ntreeops + 1
    /\ lastTree' = NoTreeOp

TreeInitial ==
    /\ tree = EmptyTree
    /\ lastMove = NoMove
    /\ lastTree = NoTreeOp
    /\ ntreeops = 0

TreeIdle == TreeInitial

DoInsertDirectory == (\E path \in TreePaths : InsertDirectory(path)) /\ UNCHANGED notTree
DoInsertFile == (\E path \in TreePaths : InsertFile(path)) /\ UNCHANGED notTree
DoRemove == (\E path \in TreePaths : Remove(path)) /\ UNCHANGED notTree
DoRenameFile ==
    (\E path \in TreePaths, name \in NewNames : RenameFile(path, name))
        /\ UNCHANGED notTree
DoMoveNode ==
    (\E old_path \in TreePaths, new_path \in TreePaths : MoveNode(old_path, new_path))
        /\ UNCHANGED notTree

TreeNext ==
    DoInsertDirectory \/ DoInsertFile \/ DoRemove \/ DoRenameFile \/ DoMoveNode

----------------------------------------------------------------------------
(* Stash::list: the file index filtered by glob patterns *)

MaxGlobs == 2          \* patterns given to list

\* the names of the entries of the file index
ListNames == 1..MaxNames

\* a glob::Pattern, taken as the set of names it matches
Patterns == SUBSET ListNames

\* the sequences without repetition of the members of the subsets of S: the
\* orders in which the iterator of the file index may hand out its entries
RECURSIVE Orders(_)
Orders(S) ==
    {<<>>} \cup UNION {{<<x>> \o o : o \in Orders(S \ {x})} : x \in S}

GlobLists == UNION {[1..n -> Patterns] : n \in 0..MaxGlobs}

\* m.matches_with(&f.name, MatchOptions::new())
matches_with(m, name) == name \in m

\* Iterator::any on `matchers`, the one iterator over the patterns that the
\* filter closure owns: it takes patterns off the iterator up to the first
\* that matches, and leaves the rest for the entries that follow
RECURSIVE matchers_any(_, _)
matchers_any(matchers, name) ==
    IF matchers = <<>> THEN [found |-> FALSE, matchers |-> <<>>]
    ELSE IF matches_with(Head(matchers), name)
    THEN [found |-> TRUE, matchers |-> Tail(matchers)]
    ELSE matchers_any(Tail(matchers), name)

\* mutant of list_filter: every entry passes
list_filter_all(glob, matchers, name) == [found |-> TRUE, matchers |-> matchers]

\* whether list hands on the entry `name`: all entries for an empty pattern
\* list, else the filter
list_filter(glob, matchers, name) ==
    IF Len(glob) = 0 THEN [found |-> TRUE, matchers |-> matchers]
    ELSE matchers_any(matchers, name)

ListOff == [pc |-> "off", entries |-> <<>>, glob |-> <<>>, rest |-> <<>>,
            matchers |-> <<>>, yielded |-> <<>>]

\* the consumer of the FileIterator takes the next entry
ListStep ==
    /\ listing.pc = "iter"
    /\ IF listing.rest = <<>> THEN listing' = [listing EXCEPT !.pc = "done"]
       ELSE LET name == Head(listing.rest)
                r == list_filter(listing.glob, listing.matchers, name)
            IN listing' = [listing EXCEPT
                             !.rest = Tail(@),
                             !.matchers = r.matchers,
                             !.yielded = IF r.found THEN Append(@, name) ELSE @]

\* list(glob) over a file index whose iterator gives the entries in some order
ListInitial ==
    \E entries \in Orders(ListNames), glob \in GlobLists :
      listing = [pc |-> "iter", entries |-> entries, glob |-> glob, rest |-> entries,
                 matchers |-> glob, yielded |-> <<>>]

ListIdle == listing = ListOff

DoListStep == ListStep /\ UNCHANGED notList

ListNext == DoListStep

----------------------------------------------------------------------------
(* Specifications *)

\* reads, releases and a damaged object; no writes
FuseInit == FuseInitUpTo(MaxFileSize) /\ StashIdle /\ MountIdle /\ CliIdle /\ TreeIdle /\ ListIdle
FuseNext == DoRead \/ DoRelease \/ DoCorrupt
SpecFuse == FuseInit /\ [][FuseNext]_vars

\* reads, releases and writes over smaller files
FuseWriteInit == FuseInitUpTo(MaxWrittenSize) /\ StashIdle /\ MountIdle /\ CliIdle /\ TreeIdle /\ ListIdle
FuseWriteNext == DoReadWritten \/ DoRelease \/ DoWrite
SpecFuseWrite == FuseWriteInit /\ [][FuseWriteNext]_vars

\* commits and reads of the stash
StashInit == StashInitial /\ FuseIdle /\ MountIdle /\ CliIdle /\ TreeIdle /\ ListIdle
StashNext == DoAdd \/ DoCommit \/ DoOpenRead
SpecStash == StashInit /\ [][StashNext]_vars

\* Stash::read over any chain of meta-objects the backend may hold
ChainInit == ChainInitial /\ FuseIdle /\ MountIdle /\ CliIdle /\ TreeIdle /\ ListIdle
ChainNext == DoOpenRead
SpecChain == ChainInit /\ [][ChainNext]_vars

\* a field written by a meta::Writer and read back by a meta::Reader
MetaInit == MetaInitial /\ FuseIdle /\ MountIdle /\ CliIdle /\ TreeIdle /\ ListIdle
MetaNext == DoMetaWriteField \/ DoMetaSealAndStore \/ DoMetaReadBack
SpecMeta == MetaInit /\ [][MetaNext]_vars

\* the threads of the mount command
MountInit == MountInitial /\ FuseIdle /\ StashIdle /\ CliIdle /\ TreeIdle /\ ListIdle
SpecMount == MountInit /\ [][MountNext]_vars

\* the steps of each thread of the mount command; a thread that can take its
\* next step takes it in the end, while ticks, writes, signals and umount come
\* from outside or not at all
AutoStep ==
    (Lock("auto") \/ (\E k \in 1..2 : CommitterCall("auto", k)) \/ Unlock("auto"))
        /\ UNCHANGED notMount
WorkerStep ==
    (WriteFile \/ Lock("worker") \/ WriteChunks \/ WriteEntry \/ Unlock("worker"))
        /\ UNCHANGED notMount
SessionStep ==
    (Destroy \/ Lock("session") \/ (\E k \in 1..2 : CommitterCall("session", k))
        \/ DestroySend \/ Unlock("session"))
        /\ UNCHANGED notMount
MainStep == (Recv \/ JoinUnmount \/ Joined) /\ UNCHANGED notMount

MountFair ==
    /\ WF_vars(AutoStep) /\ WF_vars(WorkerStep)
    /\ WF_vars(SessionStep) /\ WF_vars(MainStep)
SpecMountLive == MountInit /\ [][MountNext]_vars /\ MountFair

\* runs of the zfs commands
CliInit == CliInitial /\ FuseIdle /\ StashIdle /\ MountIdle /\ TreeIdle /\ ListIdle
SpecCli == CliInit /\ [][CliNext]_vars

\* inserts into the directory tree and moves within it
TreeInit == TreeInitial /\ FuseIdle /\ StashIdle /\ MountIdle /\ CliIdle /\ ListIdle
SpecTree == TreeInit /\ [][TreeNext]_vars

\* a call of Stash::list and the consumption of its iterator
ListInit ==
    ListInitial /\ FuseIdle /\ StashIdle /\ MountIdle /\ CliIdle /\ TreeIdle
SpecList == ListInit /\ [][ListNext]_vars

\* one invocation of the program: mount, or zfs commands
OpsInit == MountInit \/ CliInit
OpsNext ==
    \/ DoTick \/ DoLock \/ DoCommitterCall \/ DoUnlock
    \/ DoWriteStart \/ DoWriteFile \/ DoWriteChunks \/ DoWriteEntry
    \/ DoCtrlC \/ DoUnmount \/ DoDestroy \/ DoDestroySend
    \/ DoRecv \/ DoJoinUnmount \/ DoJoined
    \/ DoCliStart \/ DoCliOpen \/ DoCliLoad \/ DoZfsStore \/ DoZfsWait
    \/ DoDestroyRemove \/ DoCliCommit \/ DoCliSync
SpecOps == OpsInit /\ [][OpsNext]_vars

----------------------------------------------------------------------------
(* Claims on the read path *)

\* a read() has just been made
DidRead == lastRead.result # "none"

\* every chunk of path p lies in an object that still authenticates
Healthy(p) == \A i \in 1..Len(files[p].chunks) : files[p].chunks[i][2].object \notin corrupt

\* the bytes a read of (offset, size) must give, of content B
Expected(B, offset, size) == Slice(B, offset, Min(offset + size, Len(B)))

\* C1: for a file ingested from bytes B and any sequence of reads (no write or
\* re-index in between), every read with offset + size <= file size returns
\* exactly B[offset .. offset+size], by the cache path or by the seek path.
C1_RandomAccessRead ==
    (/\ DidRead
     /\ Healthy(lastRead.path)
     /\ lastRead.offset + lastRead.size <= lastRead.file_size)
    => /\ lastRead.result = "Ok"
       /\ lastRead.via \in {"cache", "seek"}
       /\ lastRead.data = Slice(underlying[lastRead.path], lastRead.offset,
                                lastRead.offset + lastRead.size)
       /\ Len(lastRead.data) = lastRead.size

\* a seek-path read inside the file that spans two chunks, made while the
\* path's cache has already served sequential reads
C1_Witness ==
    /\ DidRead /\ lastRead.via = "seek" /\ lastRead.result = "Ok"
    /\ lastRead.offset > 0 /\ lastRead.fetched = 2 /\ Len(lastRead.data) = 2
    /\ lastRead.offset + lastRead.size <= lastRead.file_size
    /\ lastRead.before # NoCache /\ lastRead.before.last_read_offset > 0

\* C2: a read with offset <= file size and offset + size > file size returns
\* exactly the min(size, file_size - offset) bytes B[offset .. file_size]
\* (empty when offset = file_size), never more and never an error, on both paths.
C2_ReadClippedAtEnd ==
    (/\ DidRead
     /\ Healthy(lastRead.path)
     /\ lastRead.offset <= lastRead.file_size
     /\ lastRead.offset + lastRead.size > lastRead.file_size)
    => /\ lastRead.result = "Ok"
       /\ lastRead.data = Slice(underlying[lastRead.path], lastRead.offset,
                                lastRead.file_size)
       /\ Len(lastRead.data) = Min(lastRead.size, lastRead.file_size - lastRead.offset)

\* a cache-path read that asks for more than is left and gets the rest
C2_Witness ==
    /\ DidRead /\ lastRead.via = "cache" /\ lastRead.result = "Ok"
    /\ lastRead.offset > 0
    /\ lastRead.offset + lastRead.size > lastRead.file_size
    /\ Len(lastRead.data) >= 1
    /\ Len(lastRead.data) < lastRead.size

\* C6: a read with offset > file size returns EINVAL without fetching a chunk and
\* without creating or modifying the path's cache entry; a read with
\* offset = file size is not an error.
C6_InvalidRange ==
    DidRead =>
      /\ lastRead.offset > lastRead.file_size
           => /\ lastRead.result = "EINVAL"
              /\ lastRead.fetched = 0
              /\ chunks_cache[lastRead.path] = lastRead.before
      /\ (lastRead.offset = lastRead.file_size /\ Healthy(lastRead.path))
           => lastRead.result = "Ok" /\ lastRead.data = <<>>

\* a read beyond the end of a file that has no cache entry: none is created
C6_Witness ==
    /\ DidRead /\ lastRead.offset > lastRead.file_size
    /\ lastRead.result = "EINVAL"
    /\ lastRead.before = NoCache /\ chunks_cache[lastRead.path] = NoCache

\* the cache entry a read leaves when it must not have changed it: the entry as
\* before, or the fresh entry that every read in range creates
Untouched(p, before) ==
    IF before = NoCache
    THEN ChunkStackCache_new(sort_chunks(files[p].chunks))
    ELSE before

\* C7 (as claimed): when fetching or decrypting a chunk fails during a read, the
\* read reports an error through the callback, and the path's cache is left as
\* before the read (nothing buffered, the failed chunk not skipped).
C7_FetchFailureReported ==
    (DidRead /\ lastRead.failed)
    => /\ lastRead.result = "EINVAL"
       /\ chunks_cache[lastRead.path] = Untouched(lastRead.path, lastRead.before)


----------------------------------------------------------------------------
(* Claims on the write path *)

\* the bytes an Entry describes: its chunks, in file order, read from the backend
RECURSIVE Reassemble(_)
Reassemble(chunks) ==
    IF chunks = <<>> THEN <<>>
    ELSE LET ptr == Head(chunks)[2]
         IN Slice(objects[ptr.object], ptr.offset, ptr.offset + ptr.length)
            \o Reassemble(Tail(chunks))

\* C5 (as claimed): after write(path, offset, data) returns Ok, the index entry
\* of path describes the whole current content of the underlying file, and every
\* later read of path returns bytes of that new content, also a read at the
\* last_read_offset of a cache entry created before the write.
C5_ReadAfterWrite ==
    \A p \in Paths :
      (lastWrite.result = "Ok" /\ lastWrite.path = p)
      => /\ files[p].size = Len(underlying[p])
         /\ Reassemble(sort_chunks(files[p].chunks)) = underlying[p]
         /\ (DidRead /\ lastRead.path = p /\ lastRead.offset <= lastRead.file_size)
              => /\ lastRead.result = "Ok"
                 /\ lastRead.data = Expected(underlying[p], lastRead.offset,
                                             lastRead.size)


----------------------------------------------------------------------------
(* Claims on commit and read of the stash *)

\* C3: after commit returns, a new Stash with the same master key over the same
\* backend that calls read() obtains file and chunk indices equal to those of
\* the committing stash at its commit: read starts at the key-derived root
\* object commit wrote, and every field commit wrote is deserialized in full.
C3_ReadAfterCommit ==
    (lastOpen.status # "none" /\ lastOpen.key = StashKey /\ ncommits > 0)
    => /\ lastOpen.status = "Ok"
       /\ lastOpen.files = committed.files
       /\ lastOpen.chunks = committed.chunks
       /\ lastOpen.opened[1] = root_object_id(StashKey)

\* a read after the second commit, of indices that span more than one meta-object
C3_Witness ==
    /\ lastOpen.status = "Ok" /\ lastOpen.key = StashKey /\ ncommits = 2
    /\ Len(lastOpen.opened) >= 2
    /\ Cardinality(lastOpen.files) = 2 /\ Cardinality(lastOpen.chunks) = 2


----------------------------------------------------------------------------
(* Claims on the mounted filesystem *)

\* the threads that are between lock() and the drop of the stash guard
InCommit(t) ==
    pc[t] \in (IF t = "auto" THEN {"commit", "sync", "unlock"}
               ELSE {"commit", "sync", "send", "unlock"})
InReindex == pc["worker"] \in {"chunks", "entry", "unlock"}

\* C8 (as claimed): a failure of commit or of backend sync in the mounted
\* filesystem, in the periodic auto-commit or in destroy at unmount, reaches the
\* caller of mount: mount does not return Ok after one.
C8_FailuresPropagated ==
    (pc["main"] = "returned" /\ mountResult # "none" /\ failures # {})
    => mountResult # "Ok"

\* C9: a commit (auto-commit or destroy) and the re-index of a FUSE write never
\* overlap, each holds the stash mutex throughout; so every commit sees the
\* index mutations of a write completely or not at all.
C9_CommitWriteExclusive ==
    /\ \A t \in Committers :
         /\ ~(InCommit(t) /\ InReindex)
         /\ InCommit(t) => stash_mutex = t
         /\ pc[t] \in {"commit", "sync"} => index.chunks = index.files
    /\ InReindex => stash_mutex = "worker"
    /\ \A c \in commits : c.chunks = c.files

\* a commit that has stored the index with a finished write in it, while the
\* next write waits for the mutex the committer holds
C9_Witness ==
    /\ \E t \in Committers : pc[t] = "sync" /\ stash_mutex = t
    /\ pc["worker"] = "lock"
    /\ index.files # {} /\ index \in commits

----------------------------------------------------------------------------
(* Claims on the zfs commands *)

\* C4: after zfs destroy of name n has removed n from the zfs_snapshots index,
\* committed and synced, a reopened stash with all indices loaded has no value
\* for n, and every other snapshot committed before has its value from before.
C4_DestroyRemoves ==
    (/\ cli.cmd = "zfs_destroy" /\ cli.pc = "done"
     /\ cli.name \in DOMAIN cli.base)
    => LET reopened == load_all(repo)
       IN /\ cli.name \notin DOMAIN reopened
          /\ \A k \in DOMAIN cli.prior \ {cli.name} :
               k \in DOMAIN reopened /\ reopened[k] = cli.prior[k]

\* a destroy that ran to its end on a stash holding both snapshots: one is left
C4_Witness ==
    /\ cli.cmd = "zfs_destroy" /\ cli.pc = "done"
    /\ DOMAIN cli.base = SnapshotNames
    /\ DOMAIN load_all(repo) = SnapshotNames \ {cli.name}
    /\ Len(repo) = 3

----------------------------------------------------------------------------
(* Claims on the order of commit and sync *)

\* the operation of thread t has made its calls
Finished(t) ==
    IF t = "auto" THEN pc[t] = "unlock" \/ (pc[t] = "tick" /\ nticks > 0)
    ELSE pc[t] \in {"send", "unlock", "exited"}

\* C10: in every operation that commits (auto-commit, destroy of the mounted
\* filesystem, zfs commit, zfs destroy) backend sync is called after the commit
\* call returned and before the operation finishes; in the CLI commands sync is
\* reached only if commit succeeded.
C10_SyncAfterCommit ==
    /\ \A t \in Committers :
         /\ Len(opLog[t]) <= 2
         /\ \A i \in 1..Len(opLog[t]) :
              opLog[t][i][1] = (IF i = 1 THEN "commit" ELSE "sync")
         /\ Finished(t) => Len(opLog[t]) = 2
    /\ \A i \in 1..Len(cli.log) :
         cli.log[i][1] = "sync" => i = 2 /\ cli.log[1] = <<"commit", TRUE>>
    /\ cli.pc = "sync" => cli.log = << <<"commit", TRUE>> >>
    /\ cli.pc = "done" => Len(cli.log) = 2 /\ cli.log[2][1] = "sync"

\* an auto-commit whose commit failed and whose sync was called all the same,
\* or a zfs destroy that ended after a commit and a sync that succeeded
C10_Witness ==
    \/ /\ pc["auto"] = "unlock"
       /\ opLog["auto"] = << <<"commit", FALSE>>, <<"sync", TRUE>> >>
    \/ /\ cli.cmd = "zfs_destroy" /\ cli.pc = "done"
       /\ cli.log = << <<"commit", TRUE>>, <<"sync", TRUE>> >>

----------------------------------------------------------------------------
(* Claims on the objects commit submits *)

\* C11 (as claimed): over any sequence of commits on a stash no ObjectId is
\* submitted to the backend's write more than once: an object stored by one
\* commit is never overwritten by a later commit.
C11_WriteOnce ==
    \A i, j \in 1..Len(submitted) : i # j => submitted[i] # submitted[j]

----------------------------------------------------------------------------
(* Claims on Stash::read over a chain of meta-objects *)

\* C12 (as claimed): Stash::read terminates for every chain of meta-objects
\* reachable from the root, also one whose next_object links form a cycle: such
\* a chain is rejected with an error instead of being followed indefinitely.
C12_ReadTerminates == lastOpen.status \in {"none", "Ok", "Err"}

\* the records read() takes from an opened object for field f: those of f when
\* the header lists f, none otherwise
Listed(id, f) ==
    IF \E i \in 1..Len(backend[id].offsets) : backend[id].offsets[i] = f
    THEN read_into(backend[id], f) ELSE {}

\* a listed field of the object fails to deserialize
Malformed(id) ==
    \E i \in 1..Len(backend[id].offsets) :
       backend[id].offsets[i] \in backend[id].malformed

----------------------------------------------------------------------------
(* Claims on release and on the cost of reads *)

\* C13: after release(path) returns, the chunk cache holds no entry for path,
\* the entries of all other paths are unchanged, and the next read of path
\* starts from a fresh cache: last_read_offset 0, empty buf, the iterator at
\* the first chunk.
C13_ReleaseEvicts ==
    /\ lastRelease # NoRelease =>
         /\ chunks_cache[lastRelease.path] = NoCache
         /\ \A q \in Paths \ {lastRelease.path} :
              chunks_cache[q] = lastRelease.before[q]
    /\ (DidRead /\ lastRead.after_release) =>
         LET p == lastRead.path
             fresh == ChunkStackCache_new(sort_chunks(files[p].chunks))
         IN /\ lastRead.before = NoCache
            /\ fresh.last_read_offset = 0 /\ fresh.buf = <<>>
            /\ (lastRead.via = "seek" /\ lastRead.result = "Ok")
                 => lastRead.offset # 0 /\ chunks_cache[p] = fresh
            /\ (lastRead.via = "cache" /\ lastRead.result = "Ok")
                 => /\ lastRead.offset = 0
                    /\ lastRead.fetched <= Len(files[p].chunks)
                    /\ lastRead.data = Expected(underlying[p], 0, lastRead.size)
                    /\ chunks_cache[p].last_read_offset = Len(lastRead.data)

\* the release of a path whose cache had served reads, while the other path's
\* cache entry holds buffered bytes
C13_Witness ==
    /\ lastRelease # NoRelease
    /\ lastRelease.before[lastRelease.path] # NoCache
    /\ lastRelease.before[lastRelease.path].last_read_offset > 0
    /\ \E q \in Paths \ {lastRelease.path} :
         chunks_cache[q] # NoCache /\ chunks_cache[q].last_read_offset > 0

\* the chunks of path whose byte range meets [offset, offset + size)
Intersecting(p, offset, size) ==
    LET sorted == sort_chunks(files[p].chunks)
        n == Len(sorted)
        upto(i) == IF i < n THEN sorted[i + 1][1] ELSE files[p].size
    IN {i \in 1..n : sorted[i][1] < offset + size /\ upto(i) > offset}

\* C20: a read served by the seek path with size >= 1 and offset + size <= file
\* size fetches as many chunks as have a byte range that meets
\* [offset, offset+size): from the chunk with the greatest file_offset <= offset
\* to the first chunk after which the buffer covers the request.
C20_SeekFetchCount ==
    (/\ DidRead /\ lastRead.via = "seek" /\ Healthy(lastRead.path)
     /\ lastRead.size >= 1
     /\ lastRead.offset + lastRead.size <= lastRead.file_size)
    => /\ lastRead.result = "Ok"
       /\ lastRead.fetched
            = Cardinality(Intersecting(lastRead.path, lastRead.offset, lastRead.size))

\* a seek-path read that starts inside one chunk and ends at the end of the
\* next, with a third chunk after it left alone
C20_Witness ==
    /\ DidRead /\ lastRead.via = "seek" /\ lastRead.result = "Ok"
    /\ lastRead.fetched = 2 /\ Len(files[lastRead.path].chunks) = 3
    /\ lastRead.offset + lastRead.size < lastRead.file_size

\* C19 (as claimed): in a run of reads on one path, the first at offset 0 and
\* each following one at the offset the one before ended at, continued to the
\* end of the file with no release in between, every chunk of the file is
\* fetched exactly once in total, by the cache path, whatever the read sizes.
C19_OneFetchPerChunk ==
    (run.done /\ run.ok)
    => /\ run.cache_fetched = Len(files[run.path].chunks)
       /\ ~run.by_seek

\* C19 (amended): the same, for a run that begins when the path has no cache
\* entry (the first read after open or release).
C19_OneFetchPerChunkFresh ==
    (run.done /\ run.ok /\ run.fresh)
    => /\ run.cache_fetched = Len(files[run.path].chunks)
       /\ ~run.by_seek

\* a run over a file of three chunks that ended, begun on no cache entry
C19_Witness ==
    /\ run.done /\ run.ok /\ run.fresh
    /\ Len(files[run.path].chunks) = 3
    /\ run.cache_fetched = 3

----------------------------------------------------------------------------
(* Claims on the meta Writer and Reader *)

\* C14: for a meta Writer given a field whose serialization fits in one
\* meta-object, after write_field(name, index) and seal_and_store, objects()
\* maps name to exactly one object id, and a Reader over the same backend and
\* key that opens that object and calls read_into(name, empty index) ends with
\* as many entries as were written: the records written.
C14_WriteReadRoundTrip ==
    Cardinality(meta.records) <= BodyCapacity =>
      /\ meta.pc \in {"sealed", "read"} =>
           /\ Cardinality(meta.objects) = 1
           /\ meta.objects = {meta.oid}
      /\ meta.pc = "read" =>
           /\ meta.status = "Ok"
           /\ Cardinality(meta.restored) = Cardinality(meta.records)
           /\ meta.restored = meta.records

\* an index that fills the meta-object, read back
C14_Witness ==
    /\ meta.pc = "read" /\ meta.status = "Ok"
    /\ Cardinality(meta.records) = BodyCapacity
    /\ Cardinality(meta.restored) = BodyCapacity

----------------------------------------------------------------------------
(* Claims on the failures of the zfs commands *)

\* C15 (as claimed): if `zfs send` exits with a non-success status, zfs commit
\* never calls stash.commit nor backend sync, so a reopened stash shows no
\* snapshot under the requested name.
C15_FailedSendCommitsNothing ==
    (cli.cmd = "zfs_commit" /\ cli.zfs_send = "failed")
    => /\ cli.log = <<>>
       /\ cli.pc = "panicked"
       /\ cli.name \notin DOMAIN load_all(repo)

\* C16 (as claimed): when opening an existing stash fails (the root meta-object
\* does not authenticate under the credentials, or its backend read fails),
\* try_open surfaces the failure as an error to its caller and does not return
\* a new empty stash in its place.
C16_OpenFailureSurfaced ==
    (cli.existing /\ cli.open_failed) => cli.opened \notin {"ok", "empty"}

----------------------------------------------------------------------------
(* Claims on the directory tree *)

\* path p is path q or lies below it
Below(p, q) == Len(q) <= Len(p) /\ SubSeq(p, 1, Len(q)) = q

\* the last call was a move_node of a directory, and it returned
MovedDirectory == lastMove.st = "Ok" /\ lastMove.node.kind = "dir"

\* what a move of a directory from old to new has to leave behind: the node
\* at new is the one that was at old, behind the same Arc and with the map it
\* had; all that was reachable at old/x is the same node at new/x, its map
\* untouched; nothing is left at old
MoveReattached ==
    /\ get(tree, lastMove.new) = lastMove.node
    /\ tree.heap[lastMove.node.ref] = lastMove.before.heap[lastMove.node.ref]
    /\ \A x \in TreePaths :
          LET was == get(lastMove.before, lastMove.old \o x) IN
          was # NoNode =>
              /\ get(tree, lastMove.new \o x) = was
              /\ was.kind = "dir" => tree.heap[was.ref] = lastMove.before.heap[was.ref]
    /\ get(tree, lastMove.old) = NoNode

\* C17 as stated: after move_node(old, new) of a directory, get(new) is the
\* very same directory node, every descendant that was reachable at old/x is
\* reachable at new/x with identical content, and get(old) is None
C17_MoveReattaches == MovedDirectory => MoveReattached

\* C17, for two paths of which neither is the other or lies below it: after
\* move_node(old, new) of a directory, get(new) is the very same directory
\* node, every descendant that was reachable at old/x is reachable at new/x
\* with identical content, and get(old) is None
C17_MoveReattachesApart ==
    (MovedDirectory /\ ~Below(lastMove.new, lastMove.old)
                    /\ ~Below(lastMove.old, lastMove.new))
        => MoveReattached

\* a directory with something in it was moved to a path apart from its own
C17_Witness ==
    /\ MovedDirectory
    /\ ~Below(lastMove.new, lastMove.old)
    /\ ~Below(lastMove.old, lastMove.new)
    /\ \E x \in TreePaths : get(lastMove.before, lastMove.old \o x) # NoNode
    /\ MoveReattached

----------------------------------------------------------------------------
(* Claims on the cache entry of a path *)

\* C21: a read at an offset other than the last_read_offset of the path's
\* cache entry is served by the seek path and leaves the entry's
\* last_read_offset, buf and iterator position as they were, and a read at
\* last_read_offset that follows it goes on with the sequential stream and
\* returns the bytes of the file.
C21_SeekLeavesCache ==
    /\ (/\ DidRead /\ lastRead.before # NoCache
         /\ lastRead.offset # lastRead.before.last_read_offset)
       => /\ ~InvalidRange(lastRead.offset, lastRead.file_size)
               => lastRead.via = "seek"
          /\ chunks_cache[lastRead.path] = lastRead.before
    /\ (/\ DidRead /\ lastRead.after_seek /\ lastRead.via = "cache"
         /\ Healthy(lastRead.path))
       => /\ lastRead.result = "Ok"
          /\ lastRead.offset = lastRead.before.last_read_offset
          /\ lastRead.data = Expected(underlying[lastRead.path], lastRead.offset,
                                      lastRead.size)

\* a read at the entry's last_read_offset, past the start of the file, right
\* after a seek-path read of the same path, which had to fetch a chunk
C21_Witness ==
    /\ DidRead /\ lastRead.after_seek /\ lastRead.via = "cache"
    /\ lastRead.result = "Ok" /\ lastRead.offset > 0
    /\ lastRead.fetched > 0 /\ Len(lastRead.data) > 0
    /\ chunks_cache[lastRead.path].buf # <<>>

\* the entry of path p holds what the sequential stream needs next: buf is the
\* file's bytes from last_read_offset on, and the iterator stands at the chunk
\* that begins where buf ends, or is exhausted with buf ending at the file's end
CacheInSync(p) ==
    LET c == chunks_cache[p]
        upto == c.last_read_offset + Len(c.buf)
    IN /\ c.buf = Slice(underlying[p], c.last_read_offset, upto)
       /\ IF c.chunks = <<>> THEN upto = files[p].size
          ELSE Head(c.chunks)[1] = upto

\* C22: after every read served by the cache path, the path's entry has
\* last_read_offset at the end of the slice just returned, buf holding exactly
\* the file bytes [last_read_offset, last_read_offset + buf.len), and the
\* iterator's next chunk at file_offset last_read_offset + buf.len (or the
\* iterator exhausted and that sum equal to the file size).
C22_CacheInSync ==
    (DidRead /\ lastRead.via = "cache" /\ lastRead.result = "Ok")
    => /\ chunks_cache[lastRead.path].last_read_offset
            = lastRead.offset + Len(lastRead.data)
       /\ CacheInSync(lastRead.path)

----------------------------------------------------------------------------
(* Claims on zfs commit of a name that exists *)

\* C23: zfs commit for a snapshot name present in the loaded zfs_snapshots
\* index aborts before any stream data is captured into storage, before
\* anything is inserted into the index and before commit, and the stored value
\* of the existing snapshot is unchanged.
C23_NoOverwrite ==
    (/\ cli.cmd = "zfs_commit" /\ cli.pc # "store"
     /\ cli.name \in DOMAIN cli.base)
    => /\ cli.pc = "panicked"
       /\ ~cli.stream_written
       /\ cli.cur = <<>>
       /\ cli.log = <<>>
       /\ cli.name \in DOMAIN load_all(repo)
       /\ load_all(repo)[cli.name] = cli.base[cli.name]
       /\ load_all(repo) = cli.prior

\* a zfs commit of a name that an earlier run committed, while another
\* snapshot is stored too
C23_Witness ==
    /\ cli.cmd = "zfs_commit" /\ cli.pc = "panicked"
    /\ cli.name \in DOMAIN cli.base
    /\ DOMAIN cli.base = SnapshotNames

----------------------------------------------------------------------------
(* Claims on the locks of the mounted file system *)

\* thread t holds the stash mutex and waits in destroy_tx.send for room in the
\* channel, which only finished.recv() makes, after mount() has made its one
\* recv: t waits for ever
BlockedForever(t) ==
    /\ stash_mutex = t /\ pc[t] = "send"
    /\ chan = ChannelCapacity
    /\ pc["main"] # "recv"

\* C24: no interleaving of the FUSE callbacks with the auto-commit task
\* deadlocks: no thread takes the stash mutex while it holds it or a chunk
\* cache entry, and no thread blocks for ever while it holds the stash mutex.
C24_NoDeadlock == \A t \in {"auto", "worker", "session"} : ~BlockedForever(t)

\* thread t is about to make, or is in, a call that writes to the backend:
\* commit (the objects of the index) or backend().sync()
InBackendIo(t) == pc[t] \in {"commit", "sync"}

\* C25: in the mounted file system no thread does backend I/O (the object
\* writes of commit, sync) while it holds the stash mutex, so a FUSE write is
\* never kept waiting for the mutex behind the backend I/O of an auto-commit.
C25_NoIoUnderLock ==
    /\ \A t \in Committers : InBackendIo(t) => stash_mutex # t
    /\ ~(pc["worker"] = "lock" /\ stash_mutex = "auto" /\ InBackendIo("auto"))

----------------------------------------------------------------------------
(* Claims on the shape of the directory tree *)

\* the directories the map at address a refers to
Children(t, a) ==
    {t.heap[a][k].ref : k \in {j \in TreeKeys : t.heap[a][j].kind = "dir"}}

\* the maps reached from the set S of maps in at most n steps
RECURSIVE ReachFrom(_, _, _)
ReachFrom(t, S, n) ==
    IF n = 0 THEN S
    ELSE ReachFrom(t, S \cup UNION {Children(t, a) : a \in S}, n - 1)

\* the maps of the tree: the top map and every directory reached from it
Reachable(t) == ReachFrom(t, {Top}, Len(t.heap))

\* the entries of the tree that refer to directory a
Parents(t, a) ==
    {<<d, k>> \in Reachable(t) \X TreeKeys : t.heap[d][k] = Node_Directory(a)}

\* C26: after any sequence of insert_file, insert_directory(path, None),
\* remove, rename_file and move_node on paths with at least one non-empty
\* component, the top map of the Tree has no key other than "", that key maps
\* to a Directory, the node graph is acyclic, and every directory node is
\* referenced by exactly one parent.
C26_TreeShape ==
    /\ \A k \in TreeNames : tree.heap[Top][k] = NoNode
    /\ tree.heap[Top][""].kind \in {"none", "dir"}
    /\ \A a \in Reachable(tree) \ {Top} :
         /\ a \notin ReachFrom(tree, Children(tree, a), Len(tree.heap))
         /\ Cardinality(Parents(tree, a)) = 1
    /\ Parents(tree, Top) = {}

\* a directory with a directory in it has been moved below another one
C26_Witness ==
    /\ lastMove.st = "Ok" /\ lastMove.node.kind = "dir"
    /\ Len(lastMove.new) = 2
    /\ Children(tree, lastMove.node.ref) # {}
    /\ Cardinality(Reachable(tree)) >= 5

----------------------------------------------------------------------------
(* Claims on Stash::list *)

\* the members of a sequence
Range(q) == {q[i] : i \in 1..Len(q)}

\* C27: list(globs) yields exactly the entries of the file index whose name
\* matches at least one of the patterns given (every entry when no pattern is
\* given); whether an entry is yielded depends neither on its place in the
\* iteration nor on the entries tested before it.
C27_ListMatches ==
    listing.pc = "done"
    => Range(listing.yielded)
         = {name \in Range(listing.entries) :
              \/ listing.glob = <<>>
              \/ \E i \in 1..Len(listing.glob) : matches_with(listing.glob[i], name)}

----------------------------------------------------------------------------
(* Claims on the tree as a map from paths to nodes *)

\* the paths above p: its proper prefixes of at least one part
Ancestors(p) == {SubSeq(p, 1, n) : n \in 1..(Len(p) - 1)}

\* no path above p held a file in tree t
NoFileAbove(t, p) == \A q \in Ancestors(p) : get(t, q).kind # "file"

\* get gives for every path apart from p what it gave before the last call
OthersKept(p) ==
    \A q \in TreePaths :
      (~Below(q, p) /\ ~Below(p, q)) => get(tree, q) = get(lastTree.before, q)

\* C28: the Tree refines a map from paths to nodes. For a path p of at least
\* one part with no file above it: after insert_file(p, e), get(p) is File(e)
\* and every directory above p exists; after remove(p) has returned Some(n),
\* n was the node at p and get(p) is None; and in both cases get(q) is as it
\* was for every q that is neither p nor above nor below it.
C28_TreeRefinesMap ==
    /\ (lastTree.op = "insert_file" /\ NoFileAbove(lastTree.before, lastTree.path))
       => /\ lastTree.st = "Ok"
          /\ get(tree, lastTree.path) = lastTree.node
          /\ \A q \in Ancestors(lastTree.path) : get(tree, q).kind = "dir"
          /\ OthersKept(lastTree.path)
    /\ (/\ lastTree.op = "remove" /\ lastTree.node # NoNode
        /\ NoFileAbove(lastTree.before, lastTree.path))
       => /\ lastTree.node = get(lastTree.before, lastTree.path)
          /\ get(tree, lastTree.path) = NoNode
          /\ OthersKept(lastTree.path)

\* a file inserted two levels down, its parent directory made by the insert,
\* beside a node that was in the tree already
C28_Witness ==
    /\ lastTree.op = "insert_file" /\ lastTree.st = "Ok"
    /\ Len(lastTree.path) = 2
    /\ get(lastTree.before, SubSeq(lastTree.path, 1, 1)) = NoNode
    /\ \E q \in TreePaths :
         /\ ~Below(q, lastTree.path) /\ ~Below(lastTree.path, q)
         /\ get(tree, q) # NoNode

\* C29: get(path) returns Some(node) only if node is stored exactly at path:
\* where a path above it holds a file, get returns None and not that file.
C29_GetExact ==
    \A path \in TreePaths : ~NoFileAbove(tree, path) => get(tree, path) = NoNode

\* C30: move_node(old, new) never loses the node it moves: when it does not
\* return (an ancestor of new is a file, the insert panics), the node is still
\* reached at old and the tree is as before; otherwise it is reached at new.
C30_MoveKeepsNode ==
    /\ (lastMove.st = "panic" /\ lastMove.node # NoNode)
       => /\ get(tree, lastMove.old) = lastMove.node
          /\ tree = lastMove.before
    /\ lastMove.st = "Ok" => get(tree, lastMove.new) = lastMove.node

----------------------------------------------------------------------------
(* Claims on the shutdown of the mounted file system *)

\* destroy has made its commit call and then its sync call
DestroySynced ==
    /\ Len(opLog["session"]) = 2
    /\ opLog["session"][1][1] = "commit"
    /\ opLog["session"][2][1] = "sync"

\* a shutdown signal has been given: Ctrl-C, or the session has called destroy
ShutdownSignalled == nsignals > 0 \/ pc["session"] \notin {"serving", "off"}

\* C31: every FUSE write that returned before the file system is unmounted is
\* covered by a commit attempt followed by a backend sync before mount()
\* returns: destroy makes its commit and then its sync before it sends the
\* completion signal, and after a shutdown signal (Ctrl-C or destroy) mount()
\* returns in the end.
C31_ShutdownCommits ==
    /\ []((pc["session"] \in {"unlock", "exited"} \/ pc["main"] = "returned")
            => DestroySynced)
    /\ (ShutdownSignalled ~> pc["main"] = "returned")

====
